---- MODULE Spec2Model ----
(***************************************************************************)
(* Wormhole: the offscreen engine (room membership, peer sessions,        *)
(* signalling, broadcast) as a state machine.                             *)
(*                                                                         *)
(* JavaScript runs one handler at a time up to its next await, so every   *)
(* action below is one such run: a command handler up to its first relay  *)
(* round-trip, or the continuation of an async function after the relay   *)
(* or the transport answered, up to its next await.                       *)
(*                                                                         *)
(* The relay (Firebase Realtime Database) receives the operations of one  *)
(* client over one connection: it applies and acknowledges them in the    *)
(* order they were issued (relayQ).                                       *)
(***************************************************************************)
EXTENDS Integers, Sequences, FiniteSets, Bags, TLC

VARIABLES
    \* ---- offscreen engine state (part_001 lines 45-56)
    currentRoomId, currentUser, userRef, signalUnsubscribe, usersUnsubscribe,
    peers, roomUsers,
    \* ---- async invocations of joinRoom / leaveRoom and their pending relay operation
    tasks, relayQ, commands,
    \* ---- relay state
    users, crowd, onDisc, usersListeners, signalListeners,
    \* ---- what the last handler run produced
    emitted, signalsOut, dcOut, sentCount, joinResult,
    \* ---- history
    membershipsOpen, established, nextMsgId,
    \* ---- several participants joining one room (capacity race)
    capPc, capMembers,
    \* ---- side panel state (sidepanel.js lines 34-38)
    panelUser, messages, seenMessageIds, isConnected,
    \* ---- the RTCPeerConnection objects not yet closed, the signals in the relay,
    \* ---- the promise chains (queue) of the sessions, the handleSignal invocations
    \* ---- in progress, the pending reconnect timers
    pcs, inbox, pushed, queues, running, timers,
    \* ---- history: failures and retries toward each peer since its channel last opened,
    \* ---- and what handleSignal did with each signal it was given
    reconnects, handled,
    \* ---- WebRTCManager (lib/webrtc-manager.js): this.peers, the signals not yet
    \* ---- given to handleSignal, the async methods suspended at an await, and
    \* ---- history: what handleOffer did with each offer, the signals sent
    mgrPeers, mgrSignals, mgrPushed, mgrCalls, mgrOffers, mgrSent,
    \* ---- history: how many payloads the data channels handed to onmessage, the
    \* ---- last one, and the peers a payload of which was dropped
    received,
    \* ---- service worker (part_000): its currentRoomId and the joinRoomForTab /
    \* ---- leaveCurrentRoom invocation in progress
    swRoomId, swCall,
    \* ---- history: the timers and the signals that were pending when leaveRoom
    \* ---- closed the sessions
    pendingAtLeave,
    \* ---- the engine of the remote participant that initiates the pair: its session
    \* ---- for the local participant
    farEngine

vars == <<currentRoomId, currentUser, userRef, signalUnsubscribe, usersUnsubscribe,
          peers, roomUsers, tasks, relayQ, commands, users, crowd, onDisc, usersListeners,
          signalListeners, emitted, signalsOut, dcOut, sentCount, joinResult,
          membershipsOpen, established, nextMsgId, capPc, capMembers,
          panelUser, messages, seenMessageIds, isConnected,
          pcs, inbox, pushed, queues, running, timers, reconnects, handled,
          mgrPeers, mgrSignals, mgrPushed, mgrCalls, mgrOffers, mgrSent,
          received, swRoomId, swCall, pendingAtLeave, farEngine>>

engineVars == <<currentRoomId, currentUser, userRef, signalUnsubscribe, usersUnsubscribe,
                peers, roomUsers, tasks, relayQ, commands, users, crowd, onDisc, usersListeners,
                signalListeners, emitted, signalsOut, dcOut, sentCount, joinResult,
                membershipsOpen, established, nextMsgId,
                pcs, inbox, pushed, queues, running, timers, reconnects, handled>>

capVars == <<capPc, capMembers>>

panelVars == <<panelUser, messages, seenMessageIds, isConnected>>

\* signalling state apart from the connection objects
queueVars == <<inbox, pushed, queues, running, timers, reconnects, handled>>

sigVars == <<pcs, inbox, pushed, queues, running, timers, reconnects, handled>>

libVars == <<mgrPeers, mgrSignals, mgrPushed, mgrCalls, mgrOffers, mgrSent>>

\* the channel payload history, the service worker's state, the work pending at a leave
auxVars == <<received, swRoomId, swCall, pendingAtLeave, farEngine>>

\* what LEAVE_ROOM and the relay's answers leave alone of these
swVars == <<received, swRoomId, swCall, farEngine>>

----------------------------------------------------------------------------
\* Constants of the program

MAX_USERS_PER_ROOM == 8

RECONNECT_MAX_RETRIES == 5

RECONNECT_BASE_DELAY == 1000

RECONNECT_MAX_DELAY == 30000

\* Bounds of the model

\* JOIN_ROOM / LEAVE_ROOM commands the engine receives in one behaviour
MaxCommands == 3
\* remote participants with a name (the others only fill rooms, see crowd)
NumPeers == 1
\* remote participants of the chat specification
NumChatPeers == 2
\* SEND_MESSAGE commands in one behaviour
MaxMessages == 1
\* participants that run joinRoom on the same room at once
NumJoiners == 2
\* peerData objects of one peer that may be referred to at one time
MaxGen == 3
\* signals the remote participants push to the local one in one behaviour
MaxSignals == 2
\* connection failures toward one peer between two channel opens
MaxFailures == 6

\* signals pushed for the WebRTCManager
MaxMgrSignals == 2
\* offers the remote engine sends in one behaviour
MaxOffers == 3
\* failures of the remote engine's transport that the local side did not cause
MaxFarFailures == 1
\* payloads the data channels deliver in one behaviour
MaxPayloads == 2
\* tokens of one payload
MaxPayloadLen == 4
\* how many entries the panel's message list may reach
MaxDeliveries == 3
\* how many distinct ids remote participants create
MaxRemoteIds == 1
\* remote ids are drawn from above this base, apart from the ids of local messages
RemoteIdBase == 100

NULL == "null"

\* no payload has arrived on any channel
NoPayloads == [n |-> 0, from |-> 0, data |-> <<>>, dropped |-> {}]

\* no joinRoomForTab / leaveCurrentRoom invocation is in progress
NoCall == [fn |-> "none", room |-> NULL, sent |-> "none", cmd |-> 0]

\* no leaveRoom has closed a session
NoWork == [timers |-> {}, signals |-> {}]

\* the remote engine has no session for the local participant.  pc: how many
\* connections it has created (the last one is its session's); sig: the signalling
\* state of that connection; offer: the number of the signal that carries its
\* offer; answer: the offer which the answer it applied as remote description
\* replied to (0: it has no remote description); consumed: the answers its
\* handleSignal was given; timers: its pending reconnect timers; failures: the
\* failures of its transport that the local side did not cause; dc: its channel
NoFarEngine ==
    [pc |-> 0, sig |-> "stable", offer |-> 0, answer |-> 0, consumed |-> {},
     timers |-> 0, failures |-> 0, dc |-> NULL]

Rooms == {"r1", "r2"}

\* The local participant's id and the remote ids: ids are compared with < and >.
SelfId == 2

PeerIds == (1..(NumPeers + 1)) \ {SelfId}

\* the remote ids of the chat specification: both greater and smaller than SelfId
ChatPeerIds == (1..(NumChatPeers + 1)) \ {SelfId}

Ids == PeerIds \cup {SelfId}

TaskIds == 1..MaxCommands

\* usersUnsubscribe / signalUnsubscribe hold a closure over one listener
\* registration, or null: a registration is named by the task that made it.
NoListener == 0

\* currentUser is null until the first joinRoom; afterwards it holds the local id
NoUser == 0

EmptyMap == [x \in {} |-> NULL]

\* Map.delete(k)
MapDelete(m, k) == [x \in (DOMAIN m) \ {k} |-> m[x]]

\* Map.set(k, v)
MapSet(m, k, v) == [x \in (DOMAIN m) \cup {k} |-> IF x = k THEN v ELSE m[x]]

----------------------------------------------------------------------------
\* Events sent with sendToServiceWorker

EvRoomFull == [type |-> "ROOM_FULL", userCount |-> MAX_USERS_PER_ROOM]

EvRoomJoined(roomId) == [type |-> "ROOM_JOINED", roomId |-> roomId]

EvRoomLeft == [type |-> "ROOM_LEFT"]

EvError == [type |-> "ERROR"]

EvUserJoined(odId) == [type |-> "USER_JOINED", odId |-> odId]

EvUserLeft(odId) == [type |-> "USER_LEFT", odId |-> odId]

EvPeerConnected(peerId) == [type |-> "PEER_CONNECTED", peerId |-> peerId]

EvChatSelf(id) == [type |-> "CHAT_MESSAGE", from |-> SelfId, id |-> id, isSelf |-> TRUE]

NoResult == [room |-> NULL, result |-> "none"]

\* What one handler run produced: events, signals pushed to the relay, channel sends.
Out(ev, sig, dc, cnt) == emitted' = ev /\ signalsOut' = sig /\ dcOut' = dc /\ sentCount' = cnt /\ joinResult' = NoResult

\* A run in which joinRoom(roomId) returned: its events and how it ended
JoinOut(ev, roomId, result) == emitted' = ev /\ signalsOut' = {} /\ dcOut' = {} /\ sentCount' = 0 /\ joinResult' = [room |-> roomId, result |-> result]

NoOut == Out(<<>>, {}, {}, 0)

----------------------------------------------------------------------------
\* The relay

\* Number of presence records under rooms/<r>/users: the named participants and
\* the records of participants that stay in r for the whole behaviour (crowd).
RoomCount(r) == Cardinality(users[r]) + crowd[r]

\* a capacity check that admits one participant too many
CanJoinOffByOne(userCount) == userCount <= MAX_USERS_PER_ROOM

\* checkRoomCapacity's canJoin, from the count it read
CanJoin(userCount) == userCount < MAX_USERS_PER_ROOM

\* the pending relay operation that is acknowledged next
HeadTask == Head(relayQ)

HeadIs(pc) == relayQ # <<>> /\ tasks[HeadTask].pc = pc

SetPc(t, pc) == [tasks EXCEPT ![t].pc = pc]

\* an async function returned: its invocation is gone
Finished(t) == [x \in (DOMAIN tasks) \ {t} |-> tasks[x]]

----------------------------------------------------------------------------
\* Peer sessions

\* createPeerConnection(peerId), up to its first await: the new peers entry
\* The peerData objects of one peer are told apart by a number (gen): the
\* session of the map, the RTCPeerConnection it holds, its promise chain, the
\* handleSignal invocations that still refer to an earlier object.
Here == [peers |-> peers, pcs |-> pcs, queues |-> queues, running |-> running, timers |-> timers, handled |-> handled]

UsedGens(st, p) ==
    {st.peers[q].gen : q \in {q \in DOMAIN st.peers : q = p}}
    \cup {k[2] : k \in {k \in DOMAIN st.pcs : k[1] = p}}
    \cup {k[2] : k \in {k \in DOMAIN st.queues : k[1] = p}}
    \cup {h.chain[2] : h \in {h \in st.running : h.chain[1] = p}}
    \cup {h.pc : h \in {h \in st.running : h.chain[1] = p}}
    \cup {t.gen : t \in {t \in BagToSet(st.timers) : t.peer = p}}

\* the least number no object of p in use carries (MaxGen + 1: none is left)
FreshGenIn(st, p) == CHOOSE g \in 1..(MaxGen + 1) : (g \notin UsedGens(st, p) \/ g = MaxGen + 1) /\ \A g2 \in 1..(g - 1) : g2 \in UsedGens(st, p)

FreshGen(p) == FreshGenIn(Here, p)

\* line 294 with the comparison reversed
IsInitiatorLesser(self, peerId) == self < peerId

\* line 294
IsInitiator(self, peerId) == self > peerId

\* the object built at lines 296-300 (and the data channel of line 333)
NewSession(peerId, roomId) ==
    LET isInitiator == IsInitiator(SelfId, peerId)
    IN [isInitiator |-> isInitiator,
        dc |-> IF isInitiator THEN "connecting" ELSE NULL,
        retryCount |-> 0,
        stage |-> IF isInitiator THEN "createOffer" ELSE "idle",
        hasLocal |-> FALSE,
        room |-> roomId,
        gen |-> FreshGen(peerId),
        pc |-> TRUE]

\* a new RTCPeerConnection: its signalling state, whether it has a local and a
\* remote description; offered: its offer is in the relay or with the peer, unanswered
NewPc == [sig |-> "stable", local |-> FALSE, remote |-> FALSE, offered |-> FALSE]

PcKey(m, p) == <<p, m[p].gen>>

\* the connection objects after the sessions changed from m to m2: every session
\* object that is new in m2 and holds a connection adds one
Opened(pcsMap, m, m2) ==
    LET new == {p \in DOMAIN m2 : m2[p].pc /\ (p \notin DOMAIN m \/ m[p].gen # m2[p].gen \/ ~m[p].pc)}
    IN [k \in DOMAIN pcsMap \cup {PcKey(m2, p) : p \in new} |-> IF k \in DOMAIN pcsMap THEN pcsMap[k] ELSE NewPc]

\* closePeerConnection lines 515-520: pc.close() of the session's connection
Closed(pcsMap, m, peerId) ==
    IF peerId \in DOMAIN m THEN [k \in DOMAIN pcsMap \ {PcKey(m, peerId)} |-> pcsMap[k]] ELSE pcsMap

\* leaveRoom lines 151-153: closePeerConnection for every entry
ClosedAll(pcsMap, m) == [k \in DOMAIN pcsMap \ {PcKey(m, p) : p \in DOMAIN m} |-> pcsMap[k]]

\* createPeerConnection without the test of line 288
CreatePeerConnectionAlways(m, peerId, roomId) == MapSet(m, peerId, NewSession(peerId, roomId))

CreatePeerConnection(m, peerId, roomId) == IF peerId \in DOMAIN m THEN m ELSE MapSet(m, peerId, NewSession(peerId, roomId))

ClosePeerConnection(m, peerId) == IF peerId \in DOMAIN m THEN MapDelete(m, peerId) ELSE m

\* sendSignal(toUserId, type, data): the records pushed under the current room
SendSignal(toUserId, type) ==
    IF currentRoomId = NULL \/ currentUser = NoUser
    THEN {}
    ELSE {[from |-> SelfId, to |-> toUserId, type |-> type, room |-> currentRoomId,
           sessionRoom |-> peers[toUserId].room]}

----------------------------------------------------------------------------
\* joinRoom / leaveRoom

\* The listener registrations the two unsubscribe closures remove
Unsubscribed(listeners, closure) == IF closure = NoListener THEN listeners ELSE MapDelete(listeners, closure)

\* the reconnect timers that are pending, and the signals that wait in a chain
\* or whose handleSignal invocation is suspended
PendingWork ==
    [timers |-> BagToSet(timers),
     signals |-> {h.signal.n : h \in running}
                 \cup UNION {{queues[k][i].n : i \in 1..Len(queues[k])} : k \in DOMAIN queues}]

\* leaveRoom lines 150-155: the sessions are closed and the maps cleared
SessionsCleared ==
    /\ peers' = EmptyMap
    /\ pcs' = ClosedAll(pcs, peers)
    /\ roomUsers' = {}
    /\ pendingAtLeave' = [timers |-> pendingAtLeave.timers \cup PendingWork.timers,
                          signals |-> pendingAtLeave.signals \cup PendingWork.signals]

\* leaveRoom lines 157-179 after the presence removal: the rest of leaveRoom
FinishLeave ==
    /\ signalListeners' = Unsubscribed(signalListeners, signalUnsubscribe)
    /\ usersListeners' = Unsubscribed(usersListeners, usersUnsubscribe)
    /\ signalUnsubscribe' = NoListener
    /\ usersUnsubscribe' = NoListener

\* JOIN_ROOM: joinRoom up to `await get(usersRef)`
JoinRoom(roomId) ==
    /\ commands < MaxCommands
    /\ commands' = commands + 1
    /\ tasks' = MapSet(tasks, commands + 1, [kind |-> "join", room |-> roomId, pc |-> "get", ref |-> NULL])
    /\ relayQ' = Append(relayQ, commands + 1)
    /\ NoOut
    /\ UNCHANGED <<currentRoomId, currentUser, userRef, signalUnsubscribe, usersUnsubscribe,
                   peers, roomUsers, users, crowd, onDisc, usersListeners, signalListeners,
                   membershipsOpen, established, nextMsgId, capVars, libVars, auxVars, panelVars, sigVars>>

\* joinRoom lines 104-114: become the room's member and write the presence record
JoinWrite(t) ==
    /\ currentRoomId' = tasks[t].room
    /\ currentUser' = SelfId
    /\ userRef' = tasks[t].room

\* The capacity read answered: joinRoom from line 90 to its next await
CapacityRead ==
    /\ HeadIs("get")
    /\ LET t == HeadTask
           roomId == tasks[t].room
       IN IF ~CanJoin(RoomCount(roomId))
          THEN \* ROOM_FULL, return false
               /\ tasks' = Finished(t)
               /\ relayQ' = Tail(relayQ)
               /\ JoinOut(<<EvRoomFull>>, roomId, "full")
               /\ UNCHANGED <<currentRoomId, currentUser, userRef, signalUnsubscribe,
                              usersUnsubscribe, peers, pcs, roomUsers, usersListeners,
                              signalListeners, membershipsOpen, established, pendingAtLeave>>
          ELSE IF currentRoomId # NULL
          THEN \* await leaveRoom(): peers closed and cleared
               /\ SessionsCleared
               /\ established' = NULL
               /\ IF userRef # NULL
                  THEN \* await remove(userRef)
                       /\ tasks' = [tasks EXCEPT ![t].pc = "leaving", ![t].ref = userRef]
                       /\ relayQ' = Append(Tail(relayQ), t)
                       /\ NoOut
                       /\ UNCHANGED <<currentRoomId, currentUser, userRef, signalUnsubscribe,
                                      usersUnsubscribe, usersListeners, signalListeners,
                                      membershipsOpen>>
                  ELSE \* leaveRoom runs to its end, joinRoom goes on to the presence write
                       /\ FinishLeave
                       /\ JoinWrite(t)
                       /\ membershipsOpen' = membershipsOpen - 1
                       /\ tasks' = SetPc(t, "set")
                       /\ relayQ' = Append(Tail(relayQ), t)
                       /\ Out(<<EvRoomLeft>>, {}, {}, 0)
          ELSE /\ JoinWrite(t)
               /\ tasks' = SetPc(t, "set")
               /\ relayQ' = Append(Tail(relayQ), t)
               /\ NoOut
               /\ UNCHANGED <<signalUnsubscribe, usersUnsubscribe, peers, pcs, roomUsers,
                              usersListeners, signalListeners, established, membershipsOpen, pendingAtLeave>>
    /\ UNCHANGED <<commands, users, crowd, onDisc, nextMsgId, capVars, libVars, swVars, panelVars, queueVars>>

\* a presence removal that the relay applied (ok) or refused
Removed(ref, ok) == IF ok THEN [users EXCEPT ![ref] = @ \ {SelfId}] ELSE users

\* joinRoom's leaveRoom: the presence removal answered (or failed, which leaveRoom
\* catches); leaveRoom runs to its end and joinRoom goes on to the presence write
JoinLeft(ok) ==
    /\ HeadIs("leaving")
    /\ users' = Removed(tasks[HeadTask].ref, ok)
    /\ FinishLeave
    /\ JoinWrite(HeadTask)
    /\ membershipsOpen' = membershipsOpen - 1
    /\ tasks' = SetPc(HeadTask, "set")
    /\ relayQ' = Append(Tail(relayQ), HeadTask)
    /\ Out(<<EvRoomLeft>>, {}, {}, 0)
    /\ UNCHANGED <<commands, peers, roomUsers, crowd, onDisc, established, nextMsgId, capVars, libVars, auxVars, panelVars, sigVars>>

\* The presence write answered: joinRoom lines 116-133
PresenceWritten ==
    /\ HeadIs("set")
    /\ LET t == HeadTask
           roomId == tasks[t].room
       IN /\ users' = [users EXCEPT ![roomId] = @ \cup {SelfId}]
          /\ relayQ' = Tail(relayQ)
          /\ tasks' = Finished(t)
          /\ IF userRef = NULL
             THEN \* onDisconnect(null) throws: caught at line 135
                  /\ JoinOut(<<EvError>>, roomId, "error")
                  /\ UNCHANGED <<onDisc, usersListeners, signalListeners, usersUnsubscribe,
                                 signalUnsubscribe, established, membershipsOpen>>
             ELSE /\ onDisc' = onDisc \cup {userRef}
                  /\ usersListeners' = MapSet(usersListeners, t, [room |-> roomId, seen |-> {}])
                  /\ signalListeners' = MapSet(signalListeners, t, [room |-> roomId])
                  /\ usersUnsubscribe' = t
                  /\ signalUnsubscribe' = t
                  /\ established' = roomId
                  /\ membershipsOpen' = membershipsOpen + 1
                  /\ JoinOut(<<EvRoomJoined(roomId)>>, roomId, "joined")
    /\ UNCHANGED <<commands, currentRoomId, currentUser, userRef, peers, roomUsers, crowd,
                   nextMsgId, capVars, libVars, auxVars, panelVars, sigVars>>

\* The capacity read or the presence write fails: joinRoom's catch, lines 135-142
JoinRelayError ==
    /\ HeadIs("get") \/ HeadIs("set")
    /\ tasks' = Finished(HeadTask)
    /\ relayQ' = Tail(relayQ)
    /\ JoinOut(<<EvError>>, tasks[HeadTask].room, "relay_error")
    /\ UNCHANGED <<commands, currentRoomId, currentUser, userRef, signalUnsubscribe, usersUnsubscribe,
                   peers, roomUsers, users, crowd, onDisc, usersListeners, signalListeners,
                   membershipsOpen, established, nextMsgId, capVars, libVars, auxVars, panelVars, sigVars>>

\* LEAVE_ROOM: leaveRoom up to `await remove(userRef)`
LeaveRoom ==
    /\ commands < MaxCommands
    /\ commands' = commands + 1
    /\ LET t == commands + 1
       IN IF currentRoomId = NULL
          THEN /\ NoOut
               /\ UNCHANGED <<tasks, currentRoomId, userRef, signalUnsubscribe, usersUnsubscribe,
                              peers, pcs, roomUsers, relayQ, usersListeners, signalListeners,
                              membershipsOpen, established, pendingAtLeave>>
          ELSE /\ SessionsCleared
               /\ established' = NULL
               /\ IF userRef # NULL
                  THEN /\ tasks' = MapSet(tasks, t, [kind |-> "leave", room |-> NULL, pc |-> "remove", ref |-> userRef])
                       /\ relayQ' = Append(relayQ, t)
                       /\ NoOut
                       /\ UNCHANGED <<currentRoomId, userRef, signalUnsubscribe,
                                      usersUnsubscribe, usersListeners, signalListeners,
                                      membershipsOpen>>
                  ELSE /\ FinishLeave
                       /\ currentRoomId' = NULL
                       /\ membershipsOpen' = membershipsOpen - 1
                       /\ Out(<<EvRoomLeft>>, {}, {}, 0)
                       /\ UNCHANGED <<tasks, userRef, relayQ>>
    /\ UNCHANGED <<currentUser, users, crowd, onDisc, nextMsgId, capVars, libVars, swVars, panelVars, queueVars>>

\* leaveRoom: the presence removal answered (or failed, which is caught): lines 164-179
LeaveDone(ok) ==
    /\ HeadIs("remove")
    /\ users' = Removed(tasks[HeadTask].ref, ok)
    /\ FinishLeave
    /\ userRef' = NULL
    /\ currentRoomId' = NULL
    /\ membershipsOpen' = membershipsOpen - 1
    /\ tasks' = Finished(HeadTask)
    /\ relayQ' = Tail(relayQ)
    /\ Out(<<EvRoomLeft>>, {}, {}, 0)
    /\ UNCHANGED <<commands, currentUser, peers, roomUsers, crowd, onDisc, established, nextMsgId, capVars, libVars, auxVars, panelVars, sigVars>>

----------------------------------------------------------------------------
\* Membership events of the relay (listenForUsers)

\* The engine has been told everything about p that the relay holds
InSync(p) == \A l \in DOMAIN usersListeners : (p \in usersListeners[l].seen) <=> (p \in users[usersListeners[l].room])

\* A remote participant joins a room it may join. Its records change only when the
\* engine's listeners have delivered its previous change (the relay delivers every
\* change of a child, in order).
RemoteJoin(p, r) ==
    /\ \A q \in Rooms : p \notin users[q]
    /\ InSync(p)
    /\ CanJoin(RoomCount(r))
    /\ users' = [users EXCEPT ![r] = @ \cup {p}]
    /\ NoOut
    /\ UNCHANGED <<currentRoomId, currentUser, userRef, signalUnsubscribe, usersUnsubscribe,
                   peers, roomUsers, tasks, relayQ, commands, crowd, onDisc, usersListeners,
                   signalListeners, membershipsOpen, established, nextMsgId, capVars, libVars, auxVars, panelVars, sigVars>>

RemoteLeave(p, r) ==
    /\ p \in users[r]
    /\ InSync(p)
    /\ users' = [users EXCEPT ![r] = @ \ {p}]
    /\ NoOut
    /\ UNCHANGED <<currentRoomId, currentUser, userRef, signalUnsubscribe, usersUnsubscribe,
                   peers, roomUsers, tasks, relayQ, commands, crowd, onDisc, usersListeners,
                   signalListeners, membershipsOpen, established, nextMsgId, capVars, libVars, auxVars, panelVars, sigVars>>

\* onChildAdded callback of listenForUsers, lines 186-205 (the local record is skipped)
UserJoined(l, odId) ==
    /\ l \in DOMAIN usersListeners
    /\ odId \in users[usersListeners[l].room] \ usersListeners[l].seen
    /\ odId # currentUser
    /\ usersListeners' = [usersListeners EXCEPT ![l].seen = @ \cup {odId}]
    /\ roomUsers' = roomUsers \cup {odId}
    /\ peers' = CreatePeerConnection(peers, odId, usersListeners[l].room)
    /\ peers'[odId].gen <= MaxGen
    /\ pcs' = Opened(pcs, peers, peers')
    /\ Out(<<EvUserJoined(odId)>>, {}, {}, 0)
    /\ UNCHANGED <<currentRoomId, currentUser, userRef, signalUnsubscribe, usersUnsubscribe,
                   tasks, relayQ, commands, users, crowd, onDisc, signalListeners, membershipsOpen,
                   established, nextMsgId, capVars, libVars, auxVars, panelVars, queueVars>>

\* onChildRemoved callback of listenForUsers, lines 208-224
UserLeft(l, odId) ==
    /\ l \in DOMAIN usersListeners
    /\ odId \in usersListeners[l].seen \ users[usersListeners[l].room]
    /\ odId # currentUser
    /\ usersListeners' = [usersListeners EXCEPT ![l].seen = @ \ {odId}]
    /\ roomUsers' = roomUsers \ {odId}
    /\ peers' = ClosePeerConnection(peers, odId)
    /\ pcs' = Closed(pcs, peers, odId)
    /\ Out(<<EvUserLeft(odId)>>, {}, {}, 0)
    /\ UNCHANGED <<currentRoomId, currentUser, userRef, signalUnsubscribe, usersUnsubscribe,
                   tasks, relayQ, commands, users, crowd, onDisc, signalListeners, membershipsOpen,
                   established, nextMsgId, capVars, libVars, auxVars, panelVars, queueVars>>

----------------------------------------------------------------------------
\* Transport callbacks of one session

SessionStep(peerId, session, ev, sig) ==
    /\ peers' = [peers EXCEPT ![peerId] = session]
    /\ Out(ev, sig, {}, 0)
    /\ UNCHANGED <<currentRoomId, currentUser, userRef, signalUnsubscribe, usersUnsubscribe,
                   roomUsers, tasks, relayQ, commands, users, crowd, onDisc, usersListeners,
                   signalListeners, membershipsOpen, established, nextMsgId, capVars, libVars, auxVars, panelVars,
                   inbox, pushed, queues, running, timers, handled>>

\* createPeerConnection after `await pc.createOffer()`, line 336
OfferCreated(peerId) ==
    /\ peerId \in DOMAIN peers
    /\ peers[peerId].stage = "createOffer"
    /\ SessionStep(peerId, [peers[peerId] EXCEPT !.stage = "setLocalDescription"], <<>>, {})
    /\ UNCHANGED <<pcs, reconnects>>

\* createPeerConnection after `await pc.setLocalDescription(offer)`, lines 337-341.
\* The call is rejected when a remote offer was applied first; createPeerConnection
\* then ends without sending.
LocalDescriptionSet(peerId) ==
    /\ peerId \in DOMAIN peers
    /\ peers[peerId].stage = "setLocalDescription"
    /\ LET set == pcs[PcKey(peers, peerId)].sig = "stable"
       IN /\ SessionStep(peerId, [peers[peerId] EXCEPT !.stage = "idle", !.hasLocal = @ \/ set], <<>>,
                         IF set THEN SendSignal(peerId, "offer") ELSE {})
          /\ pcs' = IF set
                    THEN [pcs EXCEPT ![PcKey(peers, peerId)] = [@ EXCEPT !.sig = "have-local-offer", !.local = TRUE,
                                                                !.offered = currentRoomId # NULL /\ currentUser # NoUser]]
                    ELSE pcs
    /\ UNCHANGED reconnects

\* pc.onicecandidate, lines 303-309: candidates are gathered once a local description is set
IceCandidate(peerId) ==
    /\ peerId \in DOMAIN peers
    /\ peers[peerId].hasLocal
    /\ SessionStep(peerId, peers[peerId], <<>>, SendSignal(peerId, "ice-candidate"))
    /\ UNCHANGED <<pcs, reconnects>>

\* pc.ondatachannel, lines 327-329, and setupDataChannel line 349
DataChannelReceived(peerId) ==
    /\ peerId \in DOMAIN peers
    /\ peers[peerId].pc
    /\ ~peers[peerId].isInitiator
    /\ peers[peerId].dc = NULL
    /\ SessionStep(peerId, [peers[peerId] EXCEPT !.dc = "connecting"], <<>>, {})
    /\ UNCHANGED <<pcs, reconnects>>

\* line 353 left out
KeepRetryCount(retryCount) == retryCount

\* line 353
ResetRetryCount(retryCount) == 0

\* channel.onopen, lines 351-359; the history of the peer's failures starts
\* again, keeping the retryCount the open found (forgiven) and the number of
\* failures so far (total)
ChannelOpened(peerId) ==
    /\ peerId \in DOMAIN peers
    /\ peers[peerId].dc = "connecting"
    /\ SessionStep(peerId, [peers[peerId] EXCEPT !.dc = "open", !.retryCount = ResetRetryCount(@)], <<EvPeerConnected(peerId)>>, {})
    /\ reconnects' = IF peerId \in DOMAIN reconnects
                     THEN MapSet(reconnects, peerId, [forgiven |-> peers[peerId].retryCount, total |-> reconnects[peerId].total,
                                                      failures |-> 0, retries |-> 0, delays |-> <<>>])
                     ELSE reconnects
    /\ UNCHANGED pcs

\* the channel of a negotiated connection opens
ChannelOpenedNegotiated(peerId) ==
    /\ peerId \in DOMAIN peers
    /\ peers[peerId].pc
    /\ pcs[PcKey(peers, peerId)].local
    /\ pcs[PcKey(peers, peerId)].remote
    /\ ChannelOpened(peerId)

\* channel.onclose, lines 361-363
ChannelClosed(peerId) ==
    /\ peerId \in DOMAIN peers
    /\ peers[peerId].dc \in {"connecting", "open"}
    /\ SessionStep(peerId, [peers[peerId] EXCEPT !.dc = "closed"], <<>>, {})
    /\ UNCHANGED <<pcs, reconnects>>

----------------------------------------------------------------------------
\* Signalling: listenForSignals, the per-session promise chain, handleSignal

\* line 435 with the comparison of line 294
PoliteGreater(self, from) == self > from

\* line 435
Polite(self, from) == self < from

\* the object built at lines 396-398 for an offer that finds no connection
OfferedSession(roomId, gen) ==
    [isInitiator |-> FALSE, dc |-> NULL, retryCount |-> 0, stage |-> "idle",
     hasLocal |-> FALSE, room |-> roomId, gen |-> gen, pc |-> TRUE]

\* the object built at line 248: no connection yet, only a queue
StubSession(roomId, gen) == [OfferedSession(roomId, gen) EXCEPT !.pc = FALSE]

\* a handleSignal invocation suspended at an await: the chain that runs it, the
\* connection it took at line 430, the transport call it awaits
Suspended(k, signal, step, gen, rollback) ==
    [chain |-> k, signal |-> signal, step |-> step, pc |-> gen, rollback |-> rollback]

\* What became of the signal numbered n (handled[n]): whether the listener
\* routed it to a chain and issued its removal from the relay; once handleSignal
\* started for it: the signals it overlapped with (during), the signal whose
\* completion released it (prev, 0: it did not wait), the connection's signalling
\* state and remote description it found (gen: of which peerData object), the
\* polite and offerCollision it computed, whether the description or candidate
\* was applied, the answers it sent, whether a call was rejected (error), whether
\* the connection was closed.
Received(signal, routed, removed) ==
    [signal |-> signal, routed |-> routed, removed |-> removed, started |-> FALSE,
     during |-> {}, prev |-> 0, sigBefore |-> NULL, remoteBefore |-> FALSE,
     polite |-> FALSE, collision |-> FALSE, applied |-> FALSE, answers |-> 0,
     closed |-> FALSE, error |-> FALSE, gen |-> 0]

\* signals of the peer that the relay delivered earlier and whose handling has
\* not finished when chain k starts one: invocations in progress, and signals
\* waiting in a chain other than k
Unfinished(st, k, from) ==
    {h.signal.n : h \in {h \in st.running : h.signal.from = from}}
    \cup UNION {{st.queues[k2][i].n : i \in 1..Len(st.queues[k2])} : k2 \in {x \in DOMAIN st.queues : x[1] = from /\ x # k}}

Started(st, k, signal, prev, pc, polite, collision) ==
    [st EXCEPT !.handled = [@ EXCEPT ![signal.n] =
        [@ EXCEPT !.started = TRUE, !.during = Unfinished(st, k, signal.from), !.prev = prev,
                  !.sigBefore = pc.sig, !.remoteBefore = pc.remote,
                  !.polite = polite, !.collision = collision,
                  !.gen = IF signal.from \in DOMAIN st.peers THEN st.peers[signal.from].gen ELSE 0]]]

\* no connection object: what the reads of a null pc find
NoPc == [sig |-> NULL, remote |-> FALSE]

\* line 458 negated: the answer is applied
AnswerAlways(pc) == TRUE

AnswerExpected(pc) == pc.sig = "have-local-offer"

\* line 467: the candidate is applied
CandidateAlways(pc) == TRUE

CandidateAccepted(pc) == pc.remote

\* handleSignal from its start to its first await or its return (lines 389-468)
HandleSignal(st, k, signal, prev) ==
    LET from == signal.from
        create == (from \notin DOMAIN st.peers \/ ~st.peers[from].pc) /\ signal.type = "offer"
        g == FreshGenIn(st, from)
        st1 == IF create
               THEN [st EXCEPT !.peers = MapSet(st.peers, from, OfferedSession(currentRoomId, g)),
                               !.pcs = MapSet(st.pcs, <<from, g>>, NewPc)]
               ELSE st
    IN IF from \notin DOMAIN st1.peers \/ ~st1.peers[from].pc
       THEN [Started(st1, k, signal, prev, NoPc, FALSE, FALSE)
                EXCEPT !.handled = [@ EXCEPT ![signal.n].error = from \in DOMAIN st1.peers]]
       ELSE LET key == PcKey(st1.peers, from)
                pc == st1.pcs[key]
                polite == Polite(SelfId, from)
                offerCollision == pc.sig # "stable" /\ pc.sig = "have-local-offer"
                st2 == Started(st1, k, signal, prev, pc, signal.type = "offer" /\ polite, signal.type = "offer" /\ offerCollision)
                await(step, rollback) == [st2 EXCEPT !.running = @ \cup {Suspended(k, signal, step, key[2], rollback)}]
            IN CASE signal.type = "offer" ->
                        IF offerCollision /\ ~polite THEN st2
                        ELSE await("setRemoteDescription", offerCollision)
                 [] signal.type = "answer" ->
                        IF AnswerExpected(pc) THEN await("setRemoteDescription", FALSE) ELSE st2
                 [] OTHER ->
                        IF CandidateAccepted(pc) THEN await("addIceCandidate", FALSE) ELSE st2

\* the chain of one peerData object: each queued signal is handed to handleSignal
\* when the invocation before it has settled (lines 252-256); prev is the signal
\* that settled last in this run
RECURSIVE Advance(_, _, _)
Advance(st, k, prev) ==
    IF k \notin DOMAIN st.queues \/ (\E h \in st.running : h.chain = k)
    THEN st
    ELSE LET signal == Head(st.queues[k])
             rest == Tail(st.queues[k])
             popped == [st EXCEPT !.queues = IF rest = <<>> THEN MapDelete(st.queues, k) ELSE MapSet(st.queues, k, rest)]
         IN Advance(HandleSignal(popped, k, signal, prev), k, signal.n)

\* a rejected promise of the chain stops it (no catch at line 254)
StalledAfterError(st, k, prev) == st

\* the chain after handleSignal caught an error (lines 474-481) or the chain's
\* catch did (lines 254-256)
AfterError(st, k, prev) == Advance(st, k, prev)

\* one chain for all peers
ChainShared(m, p) == <<0, 0>>

\* the chain a signal from p is appended to: peerData.queue of p's session (line 253)
ChainOf(m, p) == PcKey(m, p)

Enqueue(st, k, signal) ==
    Advance([st EXCEPT !.queues = MapSet(st.queues, k, (IF k \in DOMAIN st.queues THEN st.queues[k] ELSE <<>>) \o <<signal>>)], k, 0)

\* the state after a handler run; a run that needs more objects of one peer than
\* MaxGen is outside the model
Apply(st) ==
    /\ \A p \in DOMAIN st.peers : st.peers[p].gen <= MaxGen
    /\ peers' = st.peers
    /\ pcs' = st.pcs
    /\ queues' = st.queues
    /\ running' = st.running
    /\ handled' = st.handled

\* what the signalling callbacks leave alone
roomVars == <<currentRoomId, currentUser, userRef, signalUnsubscribe, usersUnsubscribe, roomUsers,
              tasks, relayQ, commands, users, crowd, onDisc, usersListeners, signalListeners,
              membershipsOpen, established, nextMsgId>>

\* the signal types the engine at p sends to the local one: it offers when it is
\* the initiator of the pair (line 332) and answers an offer (lines 449-455)
Conforming(p, type) ==
    CASE type = "offer" -> IsInitiator(p, SelfId)
      [] type = "answer" -> IsInitiator(SelfId, p) /\ p \in DOMAIN peers /\ pcs[PcKey(peers, p)].offered
      [] OTHER -> TRUE

\* A participant of room r pushes a signal for the participant `to` under
\* rooms/r/signals. With any = FALSE it sends what this engine would send.
PushSignal(p, to, type, r, any) ==
    /\ pushed < MaxSignals
    /\ p \in users[r]
    /\ \E l \in DOMAIN signalListeners : signalListeners[l].room = r
    /\ to # p
    /\ IF any \/ to # SelfId THEN TRUE ELSE Conforming(p, type)
    /\ pushed' = pushed + 1
    /\ inbox' = Append(inbox, [from |-> p, to |-> to, type |-> type, room |-> r, n |-> pushed + 1])
    /\ pcs' = IF to = SelfId /\ type = "answer" /\ p \in DOMAIN peers /\ PcKey(peers, p) \in DOMAIN pcs
              THEN [pcs EXCEPT ![PcKey(peers, p)].offered = FALSE]
              ELSE pcs
    /\ NoOut
    /\ UNCHANGED <<roomVars, peers, queues, running, timers, reconnects, handled, capVars, libVars, auxVars, panelVars>>

\* line 240 without the test
MineAlways(signal) == TRUE

\* line 240: the signal is for the local participant
Mine(signal) == signal.to = currentUser

\* line 246 without the test of the type
NeedsStubAlways(m, signal) == signal.from \notin DOMAIN m

\* line 246
NeedsStub(m, signal) == signal.from \notin DOMAIN m /\ signal.type = "offer"

\* onChildAdded callback of listenForSignals, lines 235-263, with the start of
\* the chained handleSignal when the chain is idle
OnSignal(l) ==
    /\ l \in DOMAIN signalListeners
    /\ inbox # <<>>
    /\ signalListeners[l].room = Head(inbox).room
    /\ inbox' = Tail(inbox)
    /\ LET signal == Head(inbox)
           from == signal.from
           mine == Mine(signal)
           st0 == IF mine /\ NeedsStub(peers, signal)
                  THEN [Here EXCEPT !.peers = MapSet(peers, from, StubSession(currentRoomId, FreshGen(from)))]
                  ELSE Here
           routed == mine /\ from \in DOMAIN st0.peers
           st1 == [st0 EXCEPT !.handled = MapSet(handled, signal.n, Received(signal, routed, mine))]
       IN Apply(IF routed THEN Enqueue(st1, ChainOf(st1.peers, from), signal) ELSE st1)
    /\ NoOut
    /\ UNCHANGED <<roomVars, pushed, timers, reconnects, capVars, libVars, auxVars, panelVars>>

\* whether the transport call a suspended handleSignal awaits succeeds: the
\* connection is not closed and its signalling state admits the call
CallSucceeds(h, live, sig) ==
    /\ live
    /\ CASE h.step = "setRemoteDescription" /\ h.signal.type = "offer" ->
                sig \in {"stable", "have-remote-offer"} \/ (h.rollback /\ sig = "have-local-offer")
         [] h.step = "setRemoteDescription" -> sig = "have-local-offer"
         [] h.step = "createAnswer" -> sig = "have-remote-offer"
         [] h.step = "setLocalDescription" -> sig = "have-remote-offer"
         [] OTHER -> TRUE

\* handleSignal resumed after an await (lines 441-468): the call it awaited
\* failed (the catch of line 469 ends the invocation) or succeeded
HandlerStep(n) ==
    /\ \E h \in running : h.signal.n = n
    /\ LET h == CHOOSE h \in running : h.signal.n = n
           from == h.signal.from
           key == <<from, h.pc>>
           live == key \in DOMAIN pcs
           sig == IF live THEN pcs[key].sig ELSE "closed"
           ok == CallSucceeds(h, live, sig)
           sends == ok /\ h.step = "setLocalDescription"
           answer == IF sends THEN SendSignal(from, "answer") ELSE {}
           base == [Here EXCEPT !.running = @ \ {h}]
           applied(st) == [st EXCEPT !.handled = [@ EXCEPT ![n].applied = TRUE]]
           withPc(st, pc) == [st EXCEPT !.pcs = [@ EXCEPT ![key] = pc]]
           next(st, step) == [st EXCEPT !.running = @ \cup {[h EXCEPT !.step = step]}]
           after ==
               CASE ~ok -> AfterError([base EXCEPT !.handled = [@ EXCEPT ![n].closed = ~live, ![n].error = TRUE]], h.chain, n)
                 [] ok /\ h.step = "setRemoteDescription" /\ h.signal.type = "offer" ->
                        next(applied(withPc(base, [pcs[key] EXCEPT !.sig = "have-remote-offer", !.remote = TRUE,
                                                                   !.local = @ /\ ~h.rollback])), "createAnswer")
                 [] ok /\ h.step = "setRemoteDescription" /\ h.signal.type # "offer" ->
                        Advance(applied(withPc(base, [pcs[key] EXCEPT !.sig = "stable", !.remote = TRUE])), h.chain, n)
                 [] ok /\ h.step = "createAnswer" -> next(base, "setLocalDescription")
                 [] ok /\ h.step = "setLocalDescription" ->
                        Advance([withPc(base, [pcs[key] EXCEPT !.sig = "stable", !.local = TRUE])
                                    EXCEPT !.peers = [@ EXCEPT ![from].hasLocal = TRUE],
                                           !.handled = [@ EXCEPT ![n].answers = @ + Cardinality(answer)]], h.chain, n)
                 [] OTHER -> Advance(applied(base), h.chain, n)
       IN /\ Apply(after)
          /\ Out(<<>>, answer, {}, 0)
    /\ UNCHANGED <<roomVars, inbox, pushed, timers, reconnects, capVars, libVars, auxVars, panelVars>>

----------------------------------------------------------------------------
\* Reconnect: handlePeerDisconnect and its timer

EvPeerStateChange(peerId) == [type |-> "PEER_STATE_CHANGE", peerId |-> peerId]

Min(a, b) == IF a < b THEN a ELSE b

\* lines 495-498
ReconnectDelay(retryCount) == Min(RECONNECT_BASE_DELAY * 2^retryCount, RECONNECT_MAX_DELAY)

NoReconnects == [forgiven |-> 0, total |-> 0, failures |-> 0, retries |-> 0, delays |-> <<>>]

Reconnects(p) == IF p \in DOMAIN reconnects THEN reconnects[p] ELSE NoReconnects

\* a pending setTimeout of line 503: the peer it names, its delay, and the
\* peerData object (gen) whose handlePeerDisconnect scheduled it
Timer(peerId, delay, gen) == [peer |-> peerId, delay |-> delay, gen |-> gen]

\* line 489 with > for >=
BudgetSpentLate(retryCount) == retryCount > RECONNECT_MAX_RETRIES

\* line 489
BudgetSpent(retryCount) == retryCount >= RECONNECT_MAX_RETRIES

\* pc.onconnectionstatechange with state 'failed' or 'disconnected' (lines 312-324,
\* 408-418) and handlePeerDisconnect (lines 485-509). The transport of a
\* connection starts, and so can fail, once both descriptions are set.
HandlePeerDisconnect(p, max) ==
    /\ p \in DOMAIN peers
    /\ peers[p].pc
    /\ pcs[PcKey(peers, p)].local
    /\ pcs[PcKey(peers, p)].remote
    /\ Reconnects(p).total < max
    /\ IF BudgetSpent(peers[p].retryCount)
       THEN /\ peers' = ClosePeerConnection(peers, p)
            /\ pcs' = Closed(pcs, peers, p)
            /\ reconnects' = MapSet(reconnects, p, [Reconnects(p) EXCEPT !.total = @ + 1, !.failures = @ + 1])
            /\ UNCHANGED timers
       ELSE /\ peers' = [peers EXCEPT ![p].retryCount = @ + 1]
            /\ timers' = timers (+) SetToBag({Timer(p, ReconnectDelay(peers[p].retryCount), peers[p].gen)})
            /\ reconnects' = MapSet(reconnects, p, [Reconnects(p) EXCEPT !.total = @ + 1, !.failures = @ + 1,
                                        !.delays = Append(@, ReconnectDelay(peers[p].retryCount))])
            /\ UNCHANGED pcs
    /\ Out(<<EvPeerStateChange(p)>>, {}, {}, 0)
    /\ UNCHANGED <<roomVars, inbox, pushed, queues, running, handled, capVars, libVars, auxVars, panelVars>>

\* the setTimeout callback of lines 503-508
ReconnectTimer(peerId, delay) ==
    /\ \E gen \in 1..MaxGen :
            /\ Timer(peerId, delay, gen) \in BagToSet(timers)
            /\ timers' = timers (-) SetToBag({Timer(peerId, delay, gen)})
    /\ IF peerId \in DOMAIN peers /\ peerId \in roomUsers
       THEN LET closed == [Here EXCEPT !.peers = ClosePeerConnection(peers, peerId),
                                       !.pcs = Closed(pcs, peers, peerId),
                                       !.timers = timers']
                session == [NewSession(peerId, currentRoomId) EXCEPT !.gen = FreshGenIn(closed, peerId)]
            IN /\ session.gen <= MaxGen
               /\ peers' = MapSet(closed.peers, peerId, session)
               /\ pcs' = MapSet(closed.pcs, <<peerId, session.gen>>, NewPc)
               /\ reconnects' = MapSet(reconnects, peerId, [Reconnects(peerId) EXCEPT !.retries = @ + 1])
       ELSE UNCHANGED <<peers, pcs, reconnects>>
    /\ NoOut
    /\ UNCHANGED <<roomVars, inbox, pushed, queues, running, handled, capVars, libVars, auxVars, panelVars>>

----------------------------------------------------------------------------
\* broadcastMessage

\* createMessageId(): an id no earlier message has
CreateMessageId == nextMsgId

\* a loop that only asks whether the session has a channel
ChannelPresent(session) == session.dc # NULL

\* line 546: the sessions the loop sends to
ChannelOpen(session) == session.dc # NULL /\ session.dc = "open"

\* the loop of lines 545-550 over the entries not yet visited
RECURSIVE BroadcastLoop(_, _, _)
BroadcastLoop(todo, id, acc) ==
    IF todo = {}
    THEN acc
    ELSE LET peerId == CHOOSE x \in todo : TRUE
             next == IF ChannelOpen(peers[peerId])
                     THEN [sent |-> acc.sent \cup {[to |-> peerId, id |-> id]}, sentCount |-> acc.sentCount + 1]
                     ELSE acc
         IN BroadcastLoop(todo \ {peerId}, id, next)

\* SEND_MESSAGE: the side panel sends it only while it shows the room as connected
\* (sidepanel.js line 347), that is after a ROOM_JOINED, so currentUser is set.
BroadcastMessage ==
    /\ nextMsgId <= MaxMessages
    /\ currentUser # NoUser
    /\ LET id == CreateMessageId
           done == BroadcastLoop(DOMAIN peers, id, [sent |-> {}, sentCount |-> 0])
       IN Out(<<EvChatSelf(id)>>, {}, done.sent, done.sentCount)
    /\ nextMsgId' = nextMsgId + 1
    /\ UNCHANGED <<currentRoomId, currentUser, userRef, signalUnsubscribe, usersUnsubscribe,
                   peers, roomUsers, tasks, relayQ, commands, users, crowd, onDisc, usersListeners,
                   signalListeners, membershipsOpen, established, capVars, libVars, auxVars, panelVars, sigVars>>

\* GET_STATUS, lines 595-608
GetStatus == [roomId |-> currentRoomId, user |-> currentUser, users |-> roomUsers, isConnected |-> currentRoomId # NULL]

----------------------------------------------------------------------------
\* Several participants run joinRoom on one room: each reads the member count
\* and later writes its presence record (lines 78-114), against the same relay.

Joiners == 1..NumJoiners

CapJoinRoom(j) ==
    /\ capPc[j] = "idle"
    /\ capPc' = [capPc EXCEPT ![j] = "get"]
    /\ UNCHANGED <<capMembers, engineVars, panelVars, libVars, auxVars>>

CapCapacityRead(j) ==
    /\ capPc[j] = "get"
    /\ capPc' = [capPc EXCEPT ![j] = IF CanJoin(capMembers) THEN "set" ELSE "full"]
    /\ UNCHANGED <<capMembers, engineVars, panelVars, libVars, auxVars>>

CapPresenceWritten(j) ==
    /\ capPc[j] = "set"
    /\ capPc' = [capPc EXCEPT ![j] = "member"]
    /\ capMembers' = capMembers + 1
    /\ UNCHANGED <<engineVars, panelVars, libVars, auxVars>>

----------------------------------------------------------------------------
\* The consumer of the engine's events: the side panel (sidepanel.js).
\* A chat payload is the JSON object a peer sent: the engine forwards it as it
\* is.  NoId stands for an id that JavaScript treats as false (a missing id,
\* the empty string, the number 0).

NoId == 0

\* ids of messages created by remote participants
RemoteMsgIds == {RemoteIdBase + k : k \in 1..MaxRemoteIds}

\* handlePeerMessage: the event carries the payload unchanged and no isSelf
HandlePeerMessage(fromPeerId, message) == [type |-> "CHAT_MESSAGE", from |-> fromPeerId, message |-> message, isSelf |-> FALSE]

\* broadcastMessage, lines 554-560: the echo of the message just built
EchoMessage(id) == [type |-> "CHAT_MESSAGE", from |-> SelfId, message |-> [id |-> id, from |-> SelfId], isSelf |-> TRUE]

\* the entry pushed at lines 335-338; via (who handed the payload to the engine)
\* is history, not a field of the program
ChatEntry(data) ==
    [kind |-> "chat", id |-> data.message.id, from |-> data.message.from,
     isSelf |-> (data.isSelf \/ (panelUser # NoUser /\ data.message.from = panelUser)),
     via |-> data.from]

SystemEntry == [kind |-> "system", id |-> NoId, from |-> NoUser, isSelf |-> FALSE, via |-> NoUser]

\* handleChatMessage (lines 314-343)
HandleChatMessage(data) ==
    LET msgId == data.message.id
    IN IF msgId # NoId /\ msgId \in seenMessageIds
       THEN UNCHANGED <<messages, seenMessageIds>>
       ELSE /\ seenMessageIds' = IF msgId # NoId THEN seenMessageIds \cup {msgId} ELSE seenMessageIds
            /\ messages' = Append(messages, ChatEntry(data))

\* ROOM_JOINED reaches the panel: handleRoomJoined (lines 194-209)
HandleRoomJoined ==
    /\ ~isConnected
    /\ isConnected' = TRUE
    /\ panelUser' = SelfId
    /\ messages' = Append(messages, SystemEntry)
    /\ UNCHANGED <<seenMessageIds, engineVars, capVars, libVars, auxVars>>

\* ROOM_LEFT reaches the panel: handleRoomLeft (lines 211-220)
HandleRoomLeft ==
    /\ isConnected
    /\ messages' = <<>>
    /\ seenMessageIds' = {}
    /\ isConnected' = FALSE
    /\ UNCHANGED <<panelUser, engineVars, capVars, libVars, auxVars>>

\* a payload arrives over the channel of peer p and its CHAT_MESSAGE event
\* reaches the panel
PeerMessageDelivered(p, id, from) ==
    /\ isConnected
    /\ Len(messages) < MaxDeliveries
    /\ id \in {NoId} \cup RemoteMsgIds \cup 1..(nextMsgId - 1)
    /\ HandleChatMessage(HandlePeerMessage(p, [id |-> id, from |-> from]))
    /\ UNCHANGED <<panelUser, isConnected, engineVars, capVars, libVars, auxVars>>

\* sendMessage (lines 345-356), broadcastMessage in the engine, and the echo
\* reaching the panel
SelfMessageDelivered ==
    /\ isConnected
    /\ Len(messages) < MaxDeliveries
    /\ nextMsgId <= MaxMessages
    /\ HandleChatMessage(EchoMessage(CreateMessageId))
    /\ nextMsgId' = nextMsgId + 1
    /\ UNCHANGED <<panelUser, isConnected, currentRoomId, currentUser, userRef,
                   signalUnsubscribe, usersUnsubscribe, peers, roomUsers, tasks, relayQ,
                   commands, users, crowd, onDisc, usersListeners, signalListeners,
                   emitted, signalsOut, dcOut, sentCount, joinResult, membershipsOpen,
                   established, capVars, libVars, auxVars, sigVars>>

----------------------------------------------------------------------------

InitEngine ==
    /\ currentRoomId = NULL
    /\ currentUser = NoUser
    /\ userRef = NULL
    /\ signalUnsubscribe = NoListener
    /\ usersUnsubscribe = NoListener
    /\ peers = EmptyMap
    /\ roomUsers = {}
    /\ tasks = EmptyMap
    /\ relayQ = <<>>
    /\ commands = 0
    /\ users = [r \in Rooms |-> {}]
    /\ onDisc = {}
    /\ usersListeners = EmptyMap
    /\ signalListeners = EmptyMap
    /\ emitted = <<>>
    /\ signalsOut = {}
    /\ dcOut = {}
    /\ sentCount = 0
    /\ joinResult = NoResult
    /\ membershipsOpen = 0
    /\ established = NULL
    /\ nextMsgId = 1
    /\ panelUser = NoUser
    /\ messages = <<>>
    /\ seenMessageIds = {}
    /\ isConnected = FALSE
    /\ pcs = EmptyMap
    /\ inbox = <<>>
    /\ pushed = 0
    /\ queues = EmptyMap
    /\ running = {}
    /\ timers = EmptyBag
    /\ reconnects = EmptyMap
    /\ handled = EmptyMap
    /\ mgrPeers = EmptyMap
    /\ mgrSignals = {}
    /\ mgrPushed = 0
    /\ mgrCalls = {}
    /\ mgrOffers = EmptyMap
    /\ mgrSent = <<>>
    /\ received = NoPayloads
    /\ swRoomId = NULL
    /\ swCall = NoCall
    /\ pendingAtLeave = NoWork
    /\ farEngine = NoFarEngine

Init ==
    /\ InitEngine
    /\ \E c \in {0, MAX_USERS_PER_ROOM} : crowd = [r \in Rooms |-> IF r = "r2" THEN c ELSE 0]
    /\ capPc = [j \in Joiners |-> "idle"]
    /\ capMembers = 0

\* Room membership with a relay that answers every operation
NextReliable ==
    \/ \E r \in Rooms : JoinRoom(r)
    \/ CapacityRead
    \/ JoinLeft(TRUE)
    \/ PresenceWritten
    \/ LeaveRoom
    \/ LeaveDone(TRUE)
    \/ \E p \in PeerIds, r \in Rooms : RemoteJoin(p, r)
    \/ \E p \in PeerIds, r \in Rooms : RemoteLeave(p, r)
    \/ \E l \in TaskIds, p \in PeerIds : UserJoined(l, p)
    \/ \E l \in TaskIds, p \in PeerIds : UserLeft(l, p)

SpecReliable == Init /\ [][NextReliable]_vars

\* Room membership with a relay whose operations may fail
Next ==
    \/ NextReliable
    \/ JoinLeft(FALSE)
    \/ LeaveDone(FALSE)
    \/ JoinRelayError

Spec == Init /\ [][Next]_vars

\* Room membership (reliable relay) together with the start of each session's negotiation
NextMesh ==
    \/ NextReliable
    \/ \E p \in PeerIds : OfferCreated(p)
    \/ \E p \in PeerIds : LocalDescriptionSet(p)
    \/ \E p \in PeerIds : IceCandidate(p)

SpecMesh == Init /\ [][NextMesh]_vars

\* Chat: one membership, the peers' channels, broadcasts
InitChat ==
    /\ InitEngine
    /\ crowd = [r \in Rooms |-> 0]
    /\ capPc = [j \in Joiners |-> "idle"]
    /\ capMembers = 0

NextChat ==
    \/ commands = 0 /\ JoinRoom("r1")
    \/ CapacityRead
    \/ PresenceWritten
    \/ \E p \in ChatPeerIds : RemoteJoin(p, "r1")
    \/ \E p \in ChatPeerIds : RemoteLeave(p, "r1")
    \/ \E l \in TaskIds, p \in ChatPeerIds : UserJoined(l, p)
    \/ \E l \in TaskIds, p \in ChatPeerIds : UserLeft(l, p)
    \/ \E p \in ChatPeerIds : DataChannelReceived(p)
    \/ \E p \in ChatPeerIds : ChannelOpened(p)
    \/ \E p \in ChatPeerIds : ChannelClosed(p)
    \/ BroadcastMessage

SpecChat == InitChat /\ [][NextChat]_vars

InitCap ==
    /\ InitEngine
    /\ crowd = [r \in Rooms |-> 0]
    /\ capPc = [j \in Joiners |-> "idle"]
    /\ capMembers \in 0..MAX_USERS_PER_ROOM

NextCap ==
    \/ \E j \in Joiners : CapJoinRoom(j)
    \/ \E j \in Joiners : CapCapacityRead(j)
    \/ \E j \in Joiners : CapPresenceWritten(j)

SpecCap == InitCap /\ [][NextCap]_vars

\* the participants of the signalling specifications: one id below the local one, one above
SignalPeerIds == {SelfId - 1, SelfId + 1}

\* the participant of the reconnect specification: the local one is its initiator
RetryPeerIds == {SelfId - 1}

SignalTypes == {"offer", "answer", "ice-candidate"}

\* One membership with the signalling of its sessions
NextSession(ids) ==
    \/ commands = 0 /\ JoinRoom("r1")
    \/ CapacityRead
    \/ PresenceWritten
    \/ \E p \in ids : RemoteJoin(p, "r1")
    \/ \E l \in TaskIds, p \in ids : UserJoined(l, p)
    \/ \E p \in ids : OfferCreated(p)
    \/ \E p \in ids : LocalDescriptionSet(p)
    \/ \E l \in TaskIds : OnSignal(l)
    \/ \E n \in 1..MaxSignals : HandlerStep(n)
    \/ \E p \in ids, k \in 0..(RECONNECT_MAX_RETRIES - 1) : ReconnectTimer(p, ReconnectDelay(k))

\* the remote participants run this engine
NextSignal ==
    \/ NextSession(SignalPeerIds)
    \/ \E p \in SignalPeerIds, type \in SignalTypes : PushSignal(p, SelfId, type, "r1", FALSE)
    \/ \E p \in SignalPeerIds : HandlePeerDisconnect(p, 1)

SpecSignal == InitChat /\ [][NextSignal]_vars

\* the remote participants push any signal
NextSignalOpen ==
    \/ NextSession(SignalPeerIds)
    \/ \E p \in SignalPeerIds, type \in SignalTypes : PushSignal(p, SelfId, type, "r1", TRUE)
    \/ \E p \in SignalPeerIds : HandlePeerDisconnect(p, 1)

SpecSignalOpen == InitChat /\ [][NextSignalOpen]_vars

\* one remote participant that pushes signals of any type, for the local
\* participant and for a third one
NextRelay ==
    \/ NextSession(RetryPeerIds)
    \/ \E p \in RetryPeerIds, to \in {SelfId, SelfId + 1}, type \in SignalTypes : PushSignal(p, to, type, "r1", TRUE)
    \/ \E p \in RetryPeerIds : HandlePeerDisconnect(p, 1)

SpecRelay == InitChat /\ [][NextRelay]_vars

\* one remote participant whose connection fails again and again
NextRetry ==
    \/ NextSession(RetryPeerIds)
    \/ \E p \in RetryPeerIds, type \in SignalTypes : PushSignal(p, SelfId, type, "r1", FALSE)
    \/ \E p \in RetryPeerIds : HandlePeerDisconnect(p, MaxFailures)

SpecRetry == InitChat /\ [][NextRetry]_vars

\* one remote participant that answers; the connection fails again and again
\* and its channel may open
NextForgive ==
    \/ NextSession(RetryPeerIds)
    \/ \E p \in RetryPeerIds : PushSignal(p, SelfId, "answer", "r1", FALSE)
    \/ \E p \in RetryPeerIds : HandlePeerDisconnect(p, MaxFailures)
    \/ \E p \in RetryPeerIds : ChannelOpenedNegotiated(p)

SpecForgive == InitChat /\ [][NextForgive]_vars

\* the participant of the departure specification: it is the initiator of the pair
DepartPeerIds == {SelfId + 1}

\* one membership and the signalling of a session whose participant leaves
\* the room and joins it again
NextDepart ==
    \/ commands = 0 /\ JoinRoom("r1")
    \/ CapacityRead
    \/ PresenceWritten
    \/ \E p \in DepartPeerIds : RemoteJoin(p, "r1")
    \/ \E p \in DepartPeerIds : RemoteLeave(p, "r1")
    \/ \E l \in TaskIds, p \in DepartPeerIds : UserJoined(l, p)
    \/ \E l \in TaskIds, p \in DepartPeerIds : UserLeft(l, p)
    \/ \E p \in DepartPeerIds, type \in SignalTypes : PushSignal(p, SelfId, type, "r1", FALSE)
    \/ \E l \in TaskIds : OnSignal(l)
    \/ \E n \in 1..MaxSignals : HandlerStep(n)
    \/ \E p \in DepartPeerIds : HandlePeerDisconnect(p, 1)
    \/ \E p \in DepartPeerIds : ReconnectTimer(p, ReconnectDelay(0))

SpecDepart == InitChat /\ [][NextDepart]_vars

\* a membership, a leave and a second membership of the same room, with the
\* signalling of the session of a participant that stays in the room
NextRejoin ==
    \/ commands \in {0, 2} /\ JoinRoom("r1")
    \/ commands = 1 /\ LeaveRoom
    \/ CapacityRead
    \/ PresenceWritten
    \/ LeaveDone(TRUE)
    \/ \E p \in DepartPeerIds : RemoteJoin(p, "r1")
    \/ \E l \in TaskIds, p \in DepartPeerIds : UserJoined(l, p)
    \/ \E p \in DepartPeerIds, type \in SignalTypes : PushSignal(p, SelfId, type, "r1", FALSE)
    \/ \E l \in TaskIds : OnSignal(l)
    \/ \E n \in 1..MaxSignals : HandlerStep(n)
    \/ \E p \in DepartPeerIds : HandlePeerDisconnect(p, 1)
    \/ \E p \in DepartPeerIds : ReconnectTimer(p, ReconnectDelay(0))

SpecRejoin == InitChat /\ [][NextRejoin]_vars

----------------------------------------------------------------------------
\* channel.onmessage (lines 379-386).  A payload is JSON text, here a sequence
\* of tokens: the braces, a key with its colon, a number.

PayloadTokens == {"{", "}", "\"id\":", "1"}

Payloads == UNION {[1..k -> PayloadTokens] : k \in 0..MaxPayloadLen}

\* the values the texts stand for: a number, an object without members, an
\* object with the member id
JsonNumber == [kind |-> "number", member |-> <<>>]

JsonObject(members) == [kind |-> "object", member |-> members]

NoValue == [kind |-> "undefined", member |-> <<>>]

ParseFailed == [ok |-> FALSE, value |-> NoValue, rest |-> <<>>]

\* one JSON value at the start of the text t, and the text behind it
RECURSIVE ParseValue(_)
ParseValue(t) ==
    IF t = <<>>
    THEN ParseFailed
    ELSE CASE Head(t) = "1" -> [ok |-> TRUE, value |-> JsonNumber, rest |-> Tail(t)]
           [] Head(t) = "{" /\ Len(t) >= 2 /\ t[2] = "}" ->
                    [ok |-> TRUE, value |-> JsonObject(<<>>), rest |-> SubSeq(t, 3, Len(t))]
           [] Head(t) = "{" /\ Len(t) >= 2 /\ t[2] = "\"id\":" ->
                    LET v == ParseValue(SubSeq(t, 3, Len(t)))
                    IN IF v.ok /\ v.rest # <<>> /\ Head(v.rest) = "}"
                       THEN [ok |-> TRUE, value |-> JsonObject(<<v.value>>), rest |-> Tail(v.rest)]
                       ELSE ParseFailed
           [] OTHER -> ParseFailed

\* JSON.parse(event.data), line 381: ok FALSE when it throws
JsonParse(data) ==
    LET v == ParseValue(data)
    IN IF v.ok /\ v.rest = <<>> THEN [ok |-> TRUE, value |-> v.value] ELSE [ok |-> FALSE, value |-> NoValue]

\* JSON.stringify(fullMessage), line 547: the text a sender puts on the channel
RECURSIVE JsonStringify(_)
JsonStringify(value) ==
    CASE value.kind = "number" -> <<"1">>
      [] value.member = <<>> -> <<"{", "}">>
      [] OTHER -> <<"{", "\"id\":">> \o JsonStringify(value.member[1]) \o <<"}">>

\* the values a sender serialises
JsonValues == {JsonNumber, JsonObject(<<>>), JsonObject(<<JsonNumber>>), JsonObject(<<JsonObject(<<>>)>>)}

\* line 382 reached whatever JSON.parse did
ForwardedAlways(parsed) == TRUE

\* lines 381-382: handlePeerMessage is reached when JSON.parse returned
Forwarded(parsed) == parsed.ok

\* channel.onmessage of the open channel of peerId's session, lines 379-386
ChannelMessage(peerId, data) ==
    /\ received.n < MaxPayloads
    /\ peerId \in DOMAIN peers
    /\ peers[peerId].dc = "open"
    /\ LET parsed == JsonParse(data)
       IN /\ received' = [n |-> received.n + 1, from |-> peerId, data |-> data,
                          dropped |-> IF parsed.ok THEN received.dropped ELSE received.dropped \cup {peerId}]
          /\ Out(IF Forwarded(parsed) THEN <<HandlePeerMessage(peerId, parsed.value)>> ELSE <<>>, {}, {}, 0)
    /\ UNCHANGED <<roomVars, peers, sigVars, capVars, libVars, panelVars, swRoomId, swCall, pendingAtLeave, farEngine>>

\* One membership, the channel of one peer and the payloads it delivers
NextChannel ==
    \/ commands = 0 /\ JoinRoom("r1")
    \/ CapacityRead
    \/ PresenceWritten
    \/ \E p \in RetryPeerIds : RemoteJoin(p, "r1")
    \/ \E l \in TaskIds, p \in RetryPeerIds : UserJoined(l, p)
    \/ \E p \in RetryPeerIds : ChannelOpened(p)
    \/ \E p \in RetryPeerIds, data \in Payloads : ChannelMessage(p, data)

SpecChannel == InitChat /\ [][NextChannel]_vars

----------------------------------------------------------------------------
\* lib/webrtc-manager.js: WebRTCManager and PeerConnection.  The manager is
\* initialised (init, lines 256-261) with userId SelfId; removePeer and
\* closeAll are not called.

\* the PeerConnection constructor, lines 21-32; pc FALSE is this.pc null;
\* sig, local, remote and candidates (the number of remote candidates added)
\* are the state of the RTCPeerConnection
PeerConnection(isInitiator) ==
    [isInitiator |-> isInitiator, pc |-> FALSE, sig |-> "closed", local |-> FALSE, remote |-> FALSE,
     candidates |-> 0, dataChannel |-> FALSE, retryCount |-> 0, isConnecting |-> FALSE, isClosed |-> FALSE]

\* create() up to its await, lines 37-74, with line 113
PeerConnection_create(peer) ==
    IF peer.isClosed
    THEN peer
    ELSE [peer EXCEPT !.pc = TRUE, !.sig = "stable", !.local = FALSE, !.remote = FALSE, !.candidates = 0,
                      !.dataChannel = @ \/ peer.isInitiator, !.isConnecting = @ \/ peer.isInitiator]

\* close(), lines 226-238
PeerConnection_close(peer) ==
    [peer EXCEPT !.isClosed = TRUE, !.dataChannel = FALSE, !.pc = FALSE, !.sig = "closed",
                 !.local = FALSE, !.remote = FALSE, !.candidates = 0]

\* an async method of the PeerConnection for peerId suspended at an await
\* (step); n is the signal it handles, delay the sleep of handleDisconnect
MgrCall(peerId, fn, step, n, delay) == [peer |-> peerId, fn |-> fn, step |-> step, n |-> n, delay |-> delay]

\* what handleOffer did with the offer numbered n
OfferRecord(from, polite, collision) ==
    [from |-> from, polite |-> polite, collision |-> collision, ignored |-> FALSE,
     rollback |-> FALSE, applied |-> FALSE, error |-> FALSE]

\* line 273
ManagerIsInitiator(userId, peerId) == userId > peerId

\* createConnection(peerId), lines 266-287, up to the first await
WebRTCManager_createConnection(peerId) ==
    /\ peerId \notin DOMAIN mgrPeers
    /\ LET peer == PeerConnection_create(PeerConnection(ManagerIsInitiator(SelfId, peerId)))
       IN /\ mgrPeers' = MapSet(mgrPeers, peerId, peer)
          /\ mgrCalls' = IF peer.isInitiator
                         THEN mgrCalls \cup {MgrCall(peerId, "createAndSendOffer", "createOffer", 0, 0)}
                         ELSE mgrCalls
    /\ UNCHANGED <<mgrSignals, mgrPushed, mgrOffers, mgrSent, engineVars, capVars, panelVars, auxVars>>

\* the catch of createAndSendOffer and of handleOffer (lines 120-123, 146-149)
ConnectingFailed(peer) == [peer EXCEPT !.isConnecting = FALSE]

\* createAndSendOffer resumed after an await, lines 114-119
PeerConnection_createAndSendOffer(peerId) ==
    /\ \E c \in mgrCalls : c.peer = peerId /\ c.fn = "createAndSendOffer"
    /\ LET c == CHOOSE c \in mgrCalls : c.peer = peerId /\ c.fn = "createAndSendOffer"
           peer == mgrPeers[peerId]
       IN CASE c.step = "createOffer" /\ peer.pc ->
                    /\ mgrCalls' = (mgrCalls \ {c}) \cup {[c EXCEPT !.step = "setLocalDescription"]}
                    /\ UNCHANGED <<mgrPeers, mgrSent>>
            [] c.step = "setLocalDescription" /\ peer.pc /\ peer.sig \in {"stable", "have-local-offer"} ->
                    /\ mgrCalls' = mgrCalls \ {c}
                    /\ mgrPeers' = [mgrPeers EXCEPT ![peerId] = [peer EXCEPT !.sig = "have-local-offer", !.local = TRUE]]
                    /\ mgrSent' = Append(mgrSent, [to |-> peerId, type |-> "offer"])
            [] OTHER ->
                    /\ mgrCalls' = mgrCalls \ {c}
                    /\ mgrPeers' = [mgrPeers EXCEPT ![peerId] = ConnectingFailed(peer)]
                    /\ UNCHANGED mgrSent
    /\ UNCHANGED <<mgrSignals, mgrPushed, mgrOffers, engineVars, capVars, panelVars, auxVars>>

\* a participant pushes a signal for the local one; the application hands every
\* such signal to handleSignal once
MgrPushSignal(from, type) ==
    /\ mgrPushed < MaxMgrSignals
    /\ mgrPushed' = mgrPushed + 1
    /\ mgrSignals' = mgrSignals \cup {[from |-> from, type |-> type, n |-> mgrPushed + 1]}
    /\ UNCHANGED <<mgrPeers, mgrCalls, mgrOffers, mgrSent, engineVars, capVars, panelVars, auxVars>>

\* line 131
LibPolite(peerId, initiatorId) == peerId > initiatorId

\* the polite that the manager of participant `at` computes for an offer from
\* `from`: handleSignal takes the PeerConnection of `from` (lines 295, 299-306),
\* whose peerId is `from`, and passes `from` as initiatorId (line 317)
PoliteAt(at, from) == LibPolite(from, from)

\* handleSignal(signal), lines 292-328, with handleOffer / handleAnswer /
\* handleIceCandidate up to their first await
WebRTCManager_handleSignal(n) ==
    /\ \E signal \in mgrSignals : signal.n = n
    /\ LET signal == CHOOSE signal \in mgrSignals : signal.n = n
           from == signal.from
           known == IF from \notin DOMAIN mgrPeers /\ signal.type = "offer"
                    THEN MapSet(mgrPeers, from, PeerConnection_create(PeerConnection(FALSE)))
                    ELSE mgrPeers
           failed == [known EXCEPT ![from] = ConnectingFailed(@)]
           await(step) == mgrCalls \cup {MgrCall(from, signal.type, step, n, 0)}
       IN /\ mgrSignals' = mgrSignals \ {signal}
          /\ IF from \notin DOMAIN known
             THEN UNCHANGED <<mgrPeers, mgrCalls, mgrOffers>>
             ELSE LET peer == known[from]
                      polite == PoliteAt(SelfId, from)
                      offerCollision == peer.sig # "stable" /\ peer.sig = "have-local-offer"
                      record == OfferRecord(from, polite, offerCollision)
                  IN CASE signal.type = "offer" /\ ~peer.pc ->
                              /\ mgrPeers' = failed
                              /\ mgrOffers' = MapSet(mgrOffers, n, [OfferRecord(from, polite, FALSE) EXCEPT !.error = TRUE])
                              /\ UNCHANGED mgrCalls
                       [] signal.type = "offer" /\ peer.pc /\ offerCollision /\ ~polite ->
                              /\ mgrPeers' = known
                              /\ mgrOffers' = MapSet(mgrOffers, n, [record EXCEPT !.ignored = TRUE])
                              /\ UNCHANGED mgrCalls
                       [] signal.type = "offer" /\ peer.pc /\ offerCollision /\ polite ->
                              /\ mgrPeers' = known
                              /\ mgrOffers' = MapSet(mgrOffers, n, record)
                              /\ mgrCalls' = await("rollback")
                       [] signal.type = "offer" /\ peer.pc /\ ~offerCollision ->
                              /\ mgrPeers' = known
                              /\ mgrOffers' = MapSet(mgrOffers, n, record)
                              /\ mgrCalls' = await("setRemoteDescription")
                       [] signal.type = "answer" /\ peer.pc ->
                              /\ mgrCalls' = await("setRemoteDescription")
                              /\ UNCHANGED <<mgrPeers, mgrOffers>>
                       [] signal.type = "ice-candidate" /\ peer.pc /\ peer.remote ->
                              /\ mgrCalls' = await("addIceCandidate")
                              /\ UNCHANGED <<mgrPeers, mgrOffers>>
                       [] OTHER -> UNCHANGED <<mgrPeers, mgrCalls, mgrOffers>>
    /\ UNCHANGED <<mgrPushed, mgrSent, engineVars, capVars, panelVars, auxVars>>

\* handleOffer resumed after an await, lines 136-149.  `pc` in line 140 is not
\* declared anywhere in the module: evaluating it throws a ReferenceError, which
\* the catch of line 146 takes.
PeerConnection_handleOffer(n) ==
    /\ \E c \in mgrCalls : c.n = n /\ c.fn = "offer"
    /\ LET c == CHOOSE c \in mgrCalls : c.n = n /\ c.fn = "offer"
           peer == mgrPeers[c.peer]
       IN CASE c.step = "rollback" /\ peer.pc /\ peer.sig = "have-local-offer" ->
                    /\ mgrCalls' = (mgrCalls \ {c}) \cup {[c EXCEPT !.step = "setRemoteDescription"]}
                    /\ mgrPeers' = [mgrPeers EXCEPT ![c.peer] = [peer EXCEPT !.sig = "stable", !.local = FALSE]]
                    /\ mgrOffers' = [mgrOffers EXCEPT ![n].rollback = TRUE]
            [] c.step = "setRemoteDescription" /\ peer.pc /\ peer.sig \in {"stable", "have-remote-offer"} ->
                    /\ mgrCalls' = mgrCalls \ {c}
                    /\ mgrPeers' = [mgrPeers EXCEPT ![c.peer] =
                                        ConnectingFailed([peer EXCEPT !.sig = "have-remote-offer", !.remote = TRUE])]
                    /\ mgrOffers' = [mgrOffers EXCEPT ![n].applied = TRUE, ![n].error = TRUE]
            [] OTHER ->
                    /\ mgrCalls' = mgrCalls \ {c}
                    /\ mgrPeers' = [mgrPeers EXCEPT ![c.peer] = ConnectingFailed(peer)]
                    /\ mgrOffers' = [mgrOffers EXCEPT ![n].error = TRUE]
    /\ UNCHANGED <<mgrSignals, mgrPushed, mgrSent, engineVars, capVars, panelVars, auxVars>>

\* handleAnswer resumed after its await, lines 157-161
PeerConnection_handleAnswer(n) ==
    /\ \E c \in mgrCalls : c.n = n /\ c.fn = "answer"
    /\ LET c == CHOOSE c \in mgrCalls : c.n = n /\ c.fn = "answer"
           peer == mgrPeers[c.peer]
       IN /\ mgrCalls' = mgrCalls \ {c}
          /\ mgrPeers' = IF peer.pc /\ peer.sig = "have-local-offer"
                         THEN [mgrPeers EXCEPT ![c.peer] = [peer EXCEPT !.sig = "stable", !.remote = TRUE, !.isConnecting = FALSE]]
                         ELSE mgrPeers
    /\ UNCHANGED <<mgrSignals, mgrPushed, mgrOffers, mgrSent, engineVars, capVars, panelVars, auxVars>>

\* handleIceCandidate resumed after its await, lines 170-174
PeerConnection_handleIceCandidate(n) ==
    /\ \E c \in mgrCalls : c.n = n /\ c.fn = "ice-candidate"
    /\ LET c == CHOOSE c \in mgrCalls : c.n = n /\ c.fn = "ice-candidate"
       IN /\ mgrCalls' = mgrCalls \ {c}
          /\ mgrPeers' = IF mgrPeers[c.peer].pc
                         THEN [mgrPeers EXCEPT ![c.peer].candidates = @ + 1]
                         ELSE mgrPeers
    /\ UNCHANGED <<mgrSignals, mgrPushed, mgrOffers, mgrSent, engineVars, capVars, panelVars, auxVars>>

\* pc.onconnectionstatechange with 'failed' or 'disconnected' (lines 52-60) and
\* handleDisconnect up to its sleep (lines 180-197); lines 16-18 define the
\* same three reconnect constants as the engine.  The transport of a
\* connection starts, and so can fail, once both descriptions are set.
PeerConnection_handleDisconnect(peerId) ==
    /\ peerId \in DOMAIN mgrPeers
    /\ mgrPeers[peerId].pc
    /\ mgrPeers[peerId].local
    /\ mgrPeers[peerId].remote
    /\ ~mgrPeers[peerId].isClosed
    /\ ~mgrPeers[peerId].isConnecting
    /\ ~BudgetSpent(mgrPeers[peerId].retryCount)
    /\ mgrPeers' = [mgrPeers EXCEPT ![peerId].retryCount = @ + 1]
    /\ mgrCalls' = mgrCalls \cup {MgrCall(peerId, "handleDisconnect", "sleep", 0, ReconnectDelay(mgrPeers[peerId].retryCount))}
    /\ UNCHANGED <<mgrSignals, mgrPushed, mgrOffers, mgrSent, engineVars, capVars, panelVars, auxVars>>

\* handleDisconnect after its sleep, lines 199-202: close() sets isClosed, so
\* the create() that follows returns at line 38
PeerConnection_reconnect(peerId, delay) ==
    /\ MgrCall(peerId, "handleDisconnect", "sleep", 0, delay) \in mgrCalls
    /\ mgrCalls' = mgrCalls \ {MgrCall(peerId, "handleDisconnect", "sleep", 0, delay)}
    /\ mgrPeers' = IF ~mgrPeers[peerId].isClosed
                   THEN [mgrPeers EXCEPT ![peerId] = PeerConnection_create(PeerConnection_close(@))]
                   ELSE mgrPeers
    /\ UNCHANGED <<mgrSignals, mgrPushed, mgrOffers, mgrSent, engineVars, capVars, panelVars, auxVars>>

\* The manager with two remote participants, one below and one above the local
\* id, which push any signal
NextManager ==
    \/ \E p \in SignalPeerIds : WebRTCManager_createConnection(p)
    \/ \E p \in SignalPeerIds : PeerConnection_createAndSendOffer(p)
    \/ \E p \in SignalPeerIds, type \in SignalTypes : MgrPushSignal(p, type)
    \/ \E n \in 1..MaxMgrSignals : WebRTCManager_handleSignal(n)
    \/ \E n \in 1..MaxMgrSignals : PeerConnection_handleOffer(n)
    \/ \E n \in 1..MaxMgrSignals : PeerConnection_handleAnswer(n)
    \/ \E n \in 1..MaxMgrSignals : PeerConnection_handleIceCandidate(n)
    \/ \E p \in SignalPeerIds : PeerConnection_handleDisconnect(p)
    \/ \E p \in SignalPeerIds, k \in 0..(RECONNECT_MAX_RETRIES - 1) : PeerConnection_reconnect(p, ReconnectDelay(k))

SpecManager == InitChat /\ [][NextManager]_vars

\* The side panel during the memberships of one engine
NextPanel ==
    \/ HandleRoomJoined
    \/ HandleRoomLeft
    \/ \E p \in ChatPeerIds, id \in 0..(RemoteIdBase + MaxRemoteIds), from \in ChatPeerIds \cup {SelfId} : PeerMessageDelivered(p, id, from)
    \/ SelfMessageDelivered

SpecPanel == InitChat /\ [][NextPanel]_vars

----------------------------------------------------------------------------
\* The service worker (part_000): joinRoomForTab and leaveCurrentRoom, one
\* invocation at a time.  The messages ROOM_JOINED, ROOM_LEFT, ROOM_FULL and ERROR
\* that the engine sends are acknowledged and change nothing (lines 280-291).

\* an invocation suspended at `await sendToOffscreen(message)`: the function, the
\* room it joins, the message, and the command the engine receives it as
Call(fn, roomId, message) == [fn |-> fn, room |-> roomId, sent |-> message, cmd |-> commands + 1]

\* what the service worker's functions leave alone
swFrame == <<engineVars, capVars, panelVars, libVars, received, pendingAtLeave, farEngine>>

\* lines 150-170: the room is recorded, then JOIN_ROOM is sent
RecordAndJoin(roomId) ==
    /\ swRoomId' = roomId
    /\ swCall' = Call("joinRoomForTab", roomId, "JOIN_ROOM")

\* joinRoomForTab up to its first message to the engine (lines 128-170)
JoinRoomForTab(roomId) ==
    /\ swCall = NoCall
    /\ commands < MaxCommands
    /\ IF roomId = swRoomId
       THEN UNCHANGED <<swRoomId, swCall>>
       ELSE IF swRoomId # NULL
            THEN /\ swCall' = Call("joinRoomForTab", roomId, "LEAVE_ROOM")
                 /\ UNCHANGED swRoomId
            ELSE RecordAndJoin(roomId)
    /\ UNCHANGED swFrame

\* SIDE_PANEL_CLOSED (line 252): leaveCurrentRoom up to its message (lines 173-180)
LeaveCurrentRoom ==
    /\ swCall = NoCall
    /\ commands < MaxCommands
    /\ IF swRoomId = NULL
       THEN UNCHANGED swCall
       ELSE swCall' = Call("leaveCurrentRoom", NULL, "LEAVE_ROOM")
    /\ UNCHANGED <<swRoomId, swFrame>>

\* the engine's message listener receives JOIN_ROOM (part_001 lines 576-581)
JoinRoomReceived ==
    /\ swCall.sent = "JOIN_ROOM"
    /\ swCall.cmd = commands + 1
    /\ JoinRoom(swCall.room)

\* the engine's message listener receives LEAVE_ROOM (part_001 lines 583-587)
LeaveRoomReceived ==
    /\ swCall.sent = "LEAVE_ROOM"
    /\ swCall.cmd = commands + 1
    /\ LeaveRoom

\* joinRoom or leaveRoom has returned and its .then has called sendResponse
Responded == swCall # NoCall /\ commands >= swCall.cmd /\ swCall.cmd \notin DOMAIN tasks

\* the answer to JOIN_ROOM arrives: joinRoomForTab ends (lines 163-170); the
\* response is not read
JoinAnswered ==
    /\ Responded
    /\ swCall.sent = "JOIN_ROOM"
    /\ swCall' = NoCall
    /\ UNCHANGED <<swRoomId, swFrame>>

\* the answer to LEAVE_ROOM arrives: leaveCurrentRoom ends (lines 184-185), and
\* joinRoomForTab, when it called it, goes on from line 150
LeaveAnswered ==
    /\ Responded
    /\ swCall.sent = "LEAVE_ROOM"
    /\ IF swCall.fn = "joinRoomForTab"
       THEN RecordAndJoin(swCall.room)
       ELSE /\ swRoomId' = NULL
            /\ swCall' = NoCall
    /\ UNCHANGED swFrame

\* the service worker and the engine it commands; the relay may fail
NextHost ==
    \/ \E r \in Rooms : JoinRoomForTab(r)
    \/ LeaveCurrentRoom
    \/ JoinRoomReceived
    \/ LeaveRoomReceived
    \/ JoinAnswered
    \/ LeaveAnswered
    \/ CapacityRead
    \/ PresenceWritten
    \/ JoinRelayError
    \/ LeaveDone(TRUE)

SpecHost == Init /\ [][NextHost]_vars

----------------------------------------------------------------------------
\* Reconnect of a pair.  The local engine is the responder; the remote
\* participant runs the same engine and is the initiator (line 294).  Its
\* session for the local participant is farEngine; each of its handlers runs
\* to its end without another step in between.

\* the remote participant of the pair
FarId == SelfId + 1

\* what the remote engine's handlers leave alone
farFrame == <<roomVars, peers, queues, running, timers, reconnects, handled,
              capVars, libVars, panelVars, received, swRoomId, swCall, pendingAtLeave>>

\* the remote engine's createPeerConnection as initiator (lines 287-343): a new
\* connection and channel, the offer set as local description and sent
FarCreatePeerConnection ==
    /\ pushed < MaxOffers
    /\ \E l \in DOMAIN signalListeners : signalListeners[l].room = "r1"
    /\ pushed' = pushed + 1
    /\ inbox' = Append(inbox, [from |-> FarId, to |-> SelfId, type |-> "offer", room |-> "r1", n |-> pushed + 1])
    /\ UNCHANGED pcs
    /\ NoOut

\* the session after createPeerConnection
FarSession(engine) ==
    [engine EXCEPT !.pc = @ + 1, !.sig = "have-local-offer", !.offer = pushed + 1, !.answer = 0, !.dc = "connecting"]

\* the remote engine's onChildAdded callback for the local participant (lines 186-205)
FarUserJoined ==
    /\ farEngine.pc = 0
    /\ FarId \in users["r1"]
    /\ SelfId \in users["r1"]
    /\ farEngine' = FarSession(farEngine)
    /\ FarCreatePeerConnection
    /\ UNCHANGED farFrame

\* the local engine has sent an answer to the offer numbered m
Answered(m) == m \in DOMAIN handled /\ handled[m].answers > 0

\* the remote engine's handleSignal for the answer to its offer numbered m
\* (lines 457-463): it is applied when the connection has an offer outstanding
FarAnswerReceived(m) ==
    /\ farEngine.pc > 0
    /\ Answered(m)
    /\ m \notin farEngine.consumed
    /\ \A m2 \in 1..(m - 1) : Answered(m2) => m2 \in farEngine.consumed
    /\ farEngine' = IF farEngine.sig = "have-local-offer"
                    THEN [farEngine EXCEPT !.consumed = @ \cup {m}, !.sig = "stable", !.answer = m]
                    ELSE [farEngine EXCEPT !.consumed = @ \cup {m}]
    /\ NoOut
    /\ UNCHANGED <<farFrame, pcs, inbox, pushed>>

\* the remote connection has both descriptions: its transport has started
FarNegotiated == farEngine.pc > 0 /\ farEngine.sig = "stable" /\ farEngine.answer # 0

\* the two connections have each other's descriptions: the remote one applied
\* the answer to its own offer, and the local connection that sent that answer
\* is the local session's and has not been closed
Matched ==
    /\ FarNegotiated
    /\ farEngine.answer = farEngine.offer
    /\ FarId \in DOMAIN peers
    /\ peers[FarId].pc
    /\ peers[FarId].gen = handled[farEngine.offer].gen
    /\ pcs[PcKey(peers, FarId)].sig = "stable"
    /\ pcs[PcKey(peers, FarId)].local
    /\ pcs[PcKey(peers, FarId)].remote

\* the remote engine's handlePeerDisconnect (lines 485-509) for the first
\* disconnected or failed event of a connection: retryCount 0, a timer
FarHandlePeerDisconnect ==
    /\ FarNegotiated
    /\ farEngine.timers = 0
    /\ NoOut
    /\ UNCHANGED <<farFrame, pcs, inbox, pushed>>

\* the remote transport fails, the local side being there
FarDisconnected ==
    /\ farEngine.failures < MaxFarFailures
    /\ FarHandlePeerDisconnect
    /\ farEngine' = [farEngine EXCEPT !.timers = @ + 1, !.failures = @ + 1]

\* the remote transport fails because the connection it was negotiated with is
\* closed, or is none
FarPeerLost ==
    /\ ~Matched
    /\ FarHandlePeerDisconnect
    /\ farEngine' = [farEngine EXCEPT !.timers = @ + 1]

\* the remote engine's timer callback (lines 503-508): closePeerConnection and
\* createPeerConnection
FarReconnectTimer ==
    /\ farEngine.timers > 0
    /\ farEngine' = [FarSession(farEngine) EXCEPT !.timers = @ - 1]
    /\ FarCreatePeerConnection
    /\ UNCHANGED farFrame

\* the remote channel opens (lines 351-359)
FarChannelOpened ==
    /\ Matched
    /\ farEngine.dc = "connecting"
    /\ farEngine' = [farEngine EXCEPT !.dc = "open"]
    /\ NoOut
    /\ UNCHANGED <<farFrame, pcs, inbox, pushed>>

\* the local connection is handed the channel of the remote one
ChannelArrived ==
    /\ Matched
    /\ DataChannelReceived(FarId)

\* the local channel opens
ChannelOpenedMatched ==
    /\ Matched
    /\ ChannelOpened(FarId)

\* the steps of the two engines, the relay and the transport, apart from failures
NextProgress ==
    \/ commands = 0 /\ JoinRoom("r1")
    \/ CapacityRead
    \/ PresenceWritten
    \/ RemoteJoin(FarId, "r1")
    \/ \E l \in TaskIds : UserJoined(l, FarId)
    \/ \E l \in TaskIds : OnSignal(l)
    \/ \E n \in 1..MaxOffers : HandlerStep(n)
    \/ ReconnectTimer(FarId, ReconnectDelay(0))
    \/ FarUserJoined
    \/ \E m \in 1..MaxOffers : FarAnswerReceived(m)
    \/ FarPeerLost
    \/ FarReconnectTimer
    \/ FarChannelOpened
    \/ ChannelArrived
    \/ ChannelOpenedMatched

\* a pair whose connection may fail on either side
NextReconnect ==
    \/ NextProgress
    \/ HandlePeerDisconnect(FarId, 1)
    \/ FarDisconnected

SpecReconnect == InitChat /\ [][NextReconnect]_vars /\ WF_vars(NextProgress)

----------------------------------------------------------------------------
\* Claims

\* The relay answered the operation at the head of relayQ in this step
HeadAnswered == relayQ # <<>> /\ (HeadTask \notin DOMAIN tasks' \/ tasks'[HeadTask].pc # tasks[HeadTask].pc)

ListenedRooms == {usersListeners[l].room : l \in DOMAIN usersListeners} \cup {signalListeners[l].room : l \in DOMAIN signalListeners}

\* C1: a joinRoom whose capacity read finds MAX_USERS_PER_ROOM (8) or more presence
\* records emits ROOM_FULL with userCount 8, returns, and changes nothing else: no
\* relay write or registration, currentRoomId, userRef, peers, roomUsers and the
\* listeners as they were, also when the engine is a member of another room.
C1_FullRoomNoSideEffects ==
    [][(/\ HeadIs("get")
        /\ RoomCount(tasks[HeadTask].room) >= 8
        /\ HeadAnswered
        /\ joinResult'.result # "relay_error")
       => (/\ joinResult' = [room |-> tasks[HeadTask].room, result |-> "full"]
           /\ emitted' = <<[type |-> "ROOM_FULL", userCount |-> 8]>>
           /\ HeadTask \notin DOMAIN tasks'
           /\ UNCHANGED <<users, crowd, onDisc, currentRoomId, userRef, peers, roomUsers,
                          usersListeners, signalListeners, usersUnsubscribe,
                          signalUnsubscribe>>)]_vars

\* C1 witness: ROOM_FULL was answered while the engine is an established member of
\* another room and holds a session there
C1_Witness ==
    /\ joinResult.result = "full"
    /\ established # NULL
    /\ established # joinResult.room
    /\ currentRoomId = established
    /\ peers # EmptyMap
    /\ SelfId \in users[established]

\* C2: the member set of a room never holds more than MAX_USERS_PER_ROOM (8) records,
\* however many participants run joinRoom on it at once
C2_MemberSetBounded == capMembers <= 8

\* C3: the local participant never has a presence record or active listeners in two
\* different rooms at once
C3_AtMostOneRoom == Cardinality({r \in Rooms : SelfId \in users[r]} \cup ListenedRooms) <= 1

\* C4: when ROOM_LEFT is emitted, and for as long as the engine is in no room, the
\* PeerSession map and the room-member map are empty
C4_LeftMeansNoSessions ==
    ((\E i \in DOMAIN emitted : emitted[i].type = "ROOM_LEFT") \/ currentRoomId = NULL)
        => (peers = EmptyMap /\ roomUsers = {})

\* C5: every signal the engine publishes goes into the room in which the addressed
\* session was created
C5_SignalsStayInSessionRoom == \A sig \in signalsOut : sig.room = sig.sessionRoom

\* C6: no more ROOM_LEFT events are emitted than memberships were established
\* (ROOM_JOINED): each membership is left once, however many leaveRoom calls overlap
C6_OneRoomLeftPerMembership == membershipsOpen >= 0

\* C7: wherever the local presence record exists, a remove-on-disconnect
\* registration for that record is in place
C7_PresenceHasCleanup == \A r \in Rooms : SelfId \in users[r] => r \in onDisc

\* C8: a joinRoom that ended on a failed relay operation emitted ERROR and left the
\* engine not a member of the requested room: currentRoomId is not that room and no
\* listener is registered for it (a room the engine had joined before is set aside)
C8_FailedJoinLeavesNoMembership ==
    (joinResult.result = "relay_error" /\ established # joinResult.room)
        => (/\ emitted = <<[type |-> "ERROR"]>>
            /\ currentRoomId # joinResult.room
            /\ joinResult.room \notin ListenedRooms)

\* C9: GET_STATUS reports isConnected = true with a roomId exactly when membership in
\* that room is established (ROOM_JOINED emitted, no leaveRoom started since)
C9_StatusIsMembership ==
    /\ GetStatus.isConnected <=> established # NULL
    /\ GetStatus.isConnected => GetStatus.roomId = established

\* C10: a broadcast sends one message, with one id, over exactly the sessions whose
\* channel is open, counts exactly those, touches no session, and echoes that one
\* message once with isSelf = TRUE
C10_BroadcastToOpenChannels ==
    [][nextMsgId' # nextMsgId
       => LET open == {p \in DOMAIN peers : peers[p].dc = "open"}
          IN /\ dcOut' = {[to |-> p, id |-> nextMsgId] : p \in open}
             /\ sentCount' = Cardinality(open)
             /\ emitted' = <<[type |-> "CHAT_MESSAGE", from |-> SelfId, id |-> nextMsgId, isSelf |-> TRUE]>>
             /\ nextMsgId' > nextMsgId
             /\ peers' = peers]_vars

\* C10 witness: a broadcast reached one session and passed over another whose
\* channel is not open
C10_Witness ==
    /\ Len(emitted) = 1
    /\ emitted[1].type = "CHAT_MESSAGE"
    /\ sentCount = 1
    /\ \E p \in DOMAIN peers : peers[p].dc # "open"
    /\ \E p \in DOMAIN peers : [to |-> p, id |-> emitted[1].id] \in dcOut

\* C11: within one membership every message id is added to the rendered message
\* list at most once, whatever sequence of CHAT_MESSAGE events the panel
\* receives: no two chat entries of the list carry the same id.
C11_EachIdDeliveredOnce ==
    \A i, j \in DOMAIN messages :
        (messages[i].kind = "chat" /\ messages[j].kind = "chat" /\ messages[i].id = messages[j].id) => i = j

\* C12: an entry whose payload was received from a remote peer is never shown
\* as self-originated, and an entry shown for a local message has isSelf = TRUE.
C12_RemoteNeverSelf ==
    \A i \in DOMAIN messages :
        messages[i].kind = "chat" => (messages[i].isSelf <=> messages[i].via = SelfId)

\* C15: the retry scheduled at the (k+1)-th consecutive failure toward a peer
\* (k failures before it and no channel open in between, k < 5) has delay
\* min(1000 * 2^k, 30000) ms.
C15_BackoffDelay ==
    \A p \in DOMAIN reconnects : \A i \in DOMAIN reconnects[p].delays :
        i <= RECONNECT_MAX_RETRIES => reconnects[p].delays[i] = Min(1000 * 2^(i - 1), 30000)

\* C16: the retries performed toward one peer between two channel opens never
\* exceed RECONNECT_MAX_RETRIES, and no retry is scheduled after the 5th
\* consecutive failure.
C16_RetryBudget ==
    \A p \in DOMAIN reconnects :
        /\ reconnects[p].retries <= RECONNECT_MAX_RETRIES
        /\ Len(reconnects[p].delays) <= RECONNECT_MAX_RETRIES

\* C17: the signals of one remote peer are handled one at a time in the order
\* the relay delivered them: when handleSignal starts for a signal, none of
\* the peer's earlier signals is still being handled or waiting to be handled.
C17_OneAtATimeInOrder == \A n \in DOMAIN handled : handled[n].during = {}

LiveConnections(p) == {k \in DOMAIN pcs : k[1] = p}

\* C18: at any time a remote peer has at most one session and at most one
\* unclosed connection object, the one its session holds, whatever member-joined
\* events, inbound offers and reconnect timers occurred.
C18_OneSessionPerPeer ==
    /\ \A p \in SignalPeerIds : Cardinality(LiveConnections(p)) <= 1
    /\ \A k \in DOMAIN pcs : k[1] \in DOMAIN peers /\ peers[k[1]].pc /\ peers[k[1]].gen = k[2]

\* C18: a peer that joined, sent an offer and was reconnected to has one connection
C18_Witness ==
    \E p \in SignalPeerIds :
        /\ p \in roomUsers
        /\ Reconnects(p).retries >= 1
        /\ \E n \in DOMAIN handled : handled[n].signal.from = p /\ handled[n].signal.type = "offer"
        /\ Cardinality(LiveConnections(p)) = 1

\* C14: of the two participants of a pair exactly one is Initiator toward the
\* other, the one with the greater id, however the session was created, and
\* the session a reconnect creates has the role of the session it replaces.
C14_RoleAssignment ==
    /\ [](\A p \in DOMAIN peers : peers[p].pc =>
            /\ peers[p].isInitiator <=> SelfId > p
            /\ peers[p].isInitiator # IsInitiator(p, SelfId))
    /\ [][\A p \in DOMAIN peers \cap DOMAIN peers' :
            (peers[p].pc /\ peers'[p].pc) => peers'[p].isInitiator = peers[p].isInitiator]_vars

\* C14: the session toward the lesser id was recreated by the reconnect timer,
\* the session toward the greater id was created by that peer's offer
C14_Witness ==
    /\ (SelfId - 1) \in DOMAIN peers
    /\ peers[SelfId - 1].isInitiator
    /\ Reconnects(SelfId - 1).retries >= 1
    /\ (SelfId + 1) \in DOMAIN peers
    /\ (SelfId + 1) \notin roomUsers
    /\ peers[SelfId + 1].pc
    /\ ~peers[SelfId + 1].isInitiator

\* C19: for an offer from another id, the engine evaluates polite = true exactly
\* when it is not the Initiator of the pair, and the engine of the other id
\* evaluates the opposite for an offer coming back.
C19_PoliteIsNotInitiator ==
    \A n \in DOMAIN handled :
        (handled[n].signal.type = "offer" /\ handled[n].sigBefore # NULL) =>
            /\ handled[n].polite <=> ~IsInitiator(SelfId, handled[n].signal.from)
            /\ handled[n].polite # Polite(handled[n].signal.from, SelfId)

\* C19: an offer from the lesser id and an offer from the greater id were handled
C19_Witness ==
    \E n, n2 \in DOMAIN handled :
        /\ handled[n].signal.type = "offer" /\ handled[n].sigBefore # NULL /\ handled[n].polite
        /\ handled[n2].signal.type = "offer" /\ handled[n2].sigBefore # NULL /\ ~handled[n2].polite

\* the offers handleSignal took up with a connection and has finished with,
\* the connection not having been closed under it
OffersDone ==
    {n \in DOMAIN handled :
        /\ handled[n].signal.type = "offer"
        /\ handled[n].sigBefore # NULL
        /\ ~handled[n].closed
        /\ \A h \in running : h.signal.n # n}

\* C20: an offer that meets an outstanding local offer on the impolite side is
\* ignored (nothing applied, no answer); every other offer is applied, after a
\* rollback on the polite side, and answered exactly once.
C20_OfferHandling ==
    \A n \in OffersDone :
        IF handled[n].collision /\ ~handled[n].polite
        THEN ~handled[n].applied /\ handled[n].answers = 0
        ELSE handled[n].applied /\ handled[n].answers = 1

\* Between participants that run this engine, no offer meets an outstanding
\* local offer: offers travel from the greater id to the lesser, and only the
\* greater id of a pair ever sets a local offer.
NoOfferCollision ==
    /\ \A n \in DOMAIN handled : ~handled[n].collision
    /\ \A h \in running : ~h.rollback
    /\ \A k \in DOMAIN pcs : pcs[k].sig = "have-local-offer" => IsInitiator(SelfId, k[1])

\* a chain that holds waiting signals has an invocation in progress, whose
\* completion hands the next signal to handleSignal
NoIdleQueue == \A k \in DOMAIN queues : \E h \in running : h.chain = k

\* C22: an answer is applied only if it found the connection in
\* have-local-offer; an answer that found any other state is dropped on the
\* spot (it awaits no transport call and is never applied), and the signals
\* behind it are handled.
C22_StaleAnswerDropped ==
    /\ \A n \in DOMAIN handled :
            (handled[n].started /\ handled[n].signal.type = "answer") =>
                /\ handled[n].applied => handled[n].sigBefore = "have-local-offer"
                /\ handled[n].sigBefore # "have-local-offer" =>
                        ~handled[n].applied /\ \A h \in running : h.signal.n # n
    /\ NoIdleQueue

\* C22: an answer found the connection stable and a later signal of the peer was handled
C22_Witness ==
    \E n, n2 \in DOMAIN handled :
        /\ handled[n].started /\ handled[n].signal.type = "answer" /\ handled[n].sigBefore = "stable"
        /\ n2 > n /\ handled[n2].signal.from = handled[n].signal.from /\ handled[n2].started

\* the signals waiting in some chain
Waiting == {queues[k][i].n : <<k, i>> \in {x \in (DOMAIN queues) \X (1..MaxSignals) : x[2] <= Len(queues[x[1]])}}

\* C23: an ice-candidate is applied only if it found a remote description on
\* the connection; one that found none is discarded: it awaits no call, is not
\* kept in any queue and is never applied, also once the remote description is set.
C23_CandidateNotBuffered ==
    \A n \in DOMAIN handled :
        (handled[n].started /\ handled[n].signal.type = "ice-candidate") =>
            /\ handled[n].applied => handled[n].remoteBefore
            /\ ~handled[n].remoteBefore =>
                    /\ ~handled[n].applied
                    /\ n \notin Waiting
                    /\ \A h \in running : h.signal.n # n

\* C23: a candidate arrived before the remote description, which has been set since
C23_Witness ==
    \E n \in DOMAIN handled :
        /\ handled[n].started /\ handled[n].signal.type = "ice-candidate"
        /\ handled[n].sigBefore # NULL /\ ~handled[n].remoteBefore /\ ~handled[n].applied
        /\ \E k \in DOMAIN pcs : k[1] = handled[n].signal.from /\ pcs[k].remote

\* a transport call of the invocation handling signal n is rejected in this step
Rejected(n) == n \in DOMAIN handled /\ ~handled[n].error /\ handled'[n].error

Routed(n) == n \notin DOMAIN handled /\ n \in DOMAIN handled' /\ handled'[n].routed

\* C25: the chains of different peers are independent: a signal waits only in
\* the chain of its sender, behind an invocation for a signal of that sender,
\* it is released only by a signal of that sender, and a signal routed while no
\* invocation for its sender is in progress is handed to handleSignal in the
\* same run, whatever the invocations for other peers are doing.
C25_PeersIndependent ==
    /\ [](\A k \in DOMAIN queues :
            /\ \A i \in 1..Len(queues[k]) : queues[k][i].from = k[1]
            /\ \E h \in running : h.chain = k /\ h.signal.from = k[1])
    /\ [](\A n \in DOMAIN handled :
            handled[n].prev # 0 => handled[handled[n].prev].signal.from = handled[n].signal.from)
    /\ [][\A n \in 1..MaxSignals :
            (Routed(n) /\ \A h \in running : h.signal.from # handled'[n].signal.from) =>
                handled'[n].started]_vars

C25_Witness ==
    \E h \in running : \E n \in DOMAIN handled :
        /\ handled[n].started
        /\ handled[n].signal.from # h.signal.from
        /\ n > h.signal.n

\* the listener is called in this step with a signal addressed to another participant
NotMine == inbox # <<>> /\ inbox' = Tail(inbox) /\ Head(inbox).to # currentUser

\* C26: a signal whose `to` is not the local participant is ignored: the run of
\* the listener changes no session, connection, chain or invocation, starts no
\* handling, and does not remove the record from the relay.
C26_NotMineIgnored ==
    /\ [][NotMine =>
            /\ UNCHANGED <<peers, pcs, queues, running, timers>>
            /\ \A n \in DOMAIN handled : handled'[n] = handled[n]
            /\ ~handled'[Head(inbox).n].routed
            /\ ~handled'[Head(inbox).n].removed]_vars
    /\ [](\A n \in DOMAIN handled :
            handled[n].signal.to # currentUser => ~handled[n].started /\ ~handled[n].removed)

C26_Witness ==
    \E n \in DOMAIN handled :
        /\ handled[n].signal.to # currentUser
        /\ handled[n].signal.from \in DOMAIN peers
        /\ peers[handled[n].signal.from].pc

\* the listener is called in this step with a signal for the local participant
\* whose sender has no session
FromStranger ==
    /\ inbox # <<>>
    /\ inbox' = Tail(inbox)
    /\ Head(inbox).to = currentUser
    /\ Head(inbox).from \notin DOMAIN peers

\* C27: a signal from a peer without a session creates one, in the responder
\* role and with a connection, only if it is an offer; an answer or a candidate
\* from such a peer is dropped: no session, connection, chain or invocation is
\* created or changed, and the listener stays subscribed.
C27_StrangerNeedsOffer ==
    [][FromStranger =>
        LET signal == Head(inbox)
        IN IF signal.type = "offer"
           THEN /\ signal.from \in DOMAIN peers'
                /\ peers'[signal.from].pc
                /\ ~peers'[signal.from].isInitiator
                /\ PcKey(peers', signal.from) \in DOMAIN pcs'
                /\ handled'[signal.n].started
           ELSE /\ UNCHANGED <<peers, pcs, queues, running, timers, signalListeners, signalUnsubscribe>>
                /\ ~handled'[signal.n].routed
                /\ ~handled'[signal.n].started]_vars

C27_Witness ==
    \E n, n2 \in DOMAIN handled :
        /\ handled[n].signal.to = currentUser
        /\ handled[n].signal.type # "offer"
        /\ ~handled[n].routed
        /\ n2 > n
        /\ handled[n2].signal.type = "offer"
        /\ handled[n2].started
        /\ handled[n2].signal.from \notin roomUsers
        /\ handled[n2].signal.from \in DOMAIN peers

\* the signals handleSignal is working on
InProgress == {h.signal.n : h \in running}

\* C28: a signal addressed to the local participant is handed to handleSignal
\* at most once (once delivered it is not delivered again, and it is never both
\* waiting and in progress), and the removal of its relay record is issued only
\* when its handling has finished: it is neither waiting in a chain nor in an
\* invocation that is in progress.
C28_DeletedAfterProcessing ==
    \A n \in DOMAIN handled :
        /\ \A i \in 1..Len(inbox) : inbox[i].n # n
        /\ ~(n \in Waiting /\ n \in InProgress)
        /\ (n \in Waiting \/ n \in InProgress) => handled[n].routed
        /\ handled[n].removed => (n \notin Waiting /\ n \notin InProgress)

\* C30: the retryCount of every session is an integer from 0 to
\* RECONNECT_MAX_RETRIES, whatever failures, channel opens and timers occurred.
C30_RetryCountRange ==
    \A p \in DOMAIN peers : peers[p].retryCount \in 0..RECONNECT_MAX_RETRIES

C30_Witness ==
    \E p \in DOMAIN peers :
        /\ peers[p].retryCount = RECONNECT_MAX_RETRIES
        /\ Reconnects(p).failures = RECONNECT_MAX_RETRIES
        /\ Reconnects(p).forgiven > 0

\* the data channel of p's session opens in this step
Opens(p) ==
    /\ peers[p].dc = "connecting"
    /\ p \in DOMAIN peers'
    /\ peers'[p].gen = peers[p].gen
    /\ peers'[p].dc = "open"

\* C29: when the data channel of a session opens, the session's retryCount
\* becomes 0 whatever it was, and the first failure after an open is retried
\* with the base delay.
C29_OpenForgives ==
    /\ [][\A p \in DOMAIN peers : Opens(p) => peers'[p].retryCount = 0]_vars
    /\ [](\A p \in DOMAIN reconnects :
            (reconnects[p].forgiven > 0 /\ reconnects[p].delays # <<>>) =>
                reconnects[p].delays[1] = RECONNECT_BASE_DELAY)

C29_Witness ==
    \E p \in DOMAIN reconnects :
        /\ reconnects[p].forgiven > 1
        /\ reconnects[p].delays = <<RECONNECT_BASE_DELAY>>

\* C21: in WebRTCManager, when an offer from a peer arrives while the local
\* PeerConnection for that peer holds an outstanding local offer, exactly one
\* side of the pair is polite (this side for the peer's offer, or the peer's
\* manager for an offer of this side), the polite side does not ignore the
\* offer, and the impolite one does.
C21_ExactlyOnePolite ==
    \A n \in DOMAIN mgrOffers :
        mgrOffers[n].collision =>
            /\ mgrOffers[n].polite # PoliteAt(mgrOffers[n].from, SelfId)
            /\ mgrOffers[n].polite = ~mgrOffers[n].ignored

\* the sleep of a handleDisconnect of p's PeerConnection ends in this step
Woken(p) ==
    /\ \E c \in mgrCalls : c.peer = p /\ c.fn = "handleDisconnect"
    /\ \E c \in mgrCalls \ mgrCalls' : c.peer = p /\ c.fn = "handleDisconnect"

\* C36: in WebRTCManager, when the backoff delay of handleDisconnect elapses
\* and the PeerConnection was not closed in the meantime, it is torn down and
\* recreated: after the run an underlying connection exists for the peer and,
\* when the local side is the initiator, createAndSendOffer is under way.
C36_RecreatedAfterDelay ==
    [][\A p \in DOMAIN mgrPeers :
        (Woken(p) /\ ~mgrPeers[p].isClosed) =>
            /\ mgrPeers'[p].pc
            /\ mgrPeers'[p].isInitiator =>
                    \E c \in mgrCalls' : c.peer = p /\ c.fn = "createAndSendOffer"]_vars

\* the invocation of handleOffer for the offer numbered n has not returned
OfferInProgress(n) == \E c \in mgrCalls : c.n = n /\ c.fn = "offer"

\* C37: in WebRTCManager, every accepted offer (no collision, or a collision
\* on the polite side) whose handling has ended on a connection that is still
\* there was applied as remote description, got an answer as local description
\* and an `answer` signal was sent to the offering peer.
C37_AcceptedOfferAnswered ==
    \A n \in DOMAIN mgrOffers :
        (/\ ~mgrOffers[n].ignored
         /\ ~OfferInProgress(n)
         /\ mgrPeers[mgrOffers[n].from].pc) =>
            /\ mgrOffers[n].applied
            /\ mgrPeers[mgrOffers[n].from].local
            /\ \E i \in 1..Len(mgrSent) : mgrSent[i] = [to |-> mgrOffers[n].from, type |-> "answer"]

\* a payload arrives on a channel in this step
Arrives == received'.n = received.n + 1

\* C35: a channel payload that cannot be parsed is dropped: no CHAT_MESSAGE is
\* emitted for it and the sessions and their channels are left as they were;
\* the text of any value, also after a dropped payload of the same peer, is
\* delivered as a CHAT_MESSAGE from that peer carrying that value.
C35_MalformedPayloadDropped ==
    [][Arrives =>
        /\ peers' = peers
        /\ ~JsonParse(received'.data).ok => emitted' = <<>>
        /\ \A value \in JsonValues :
                received'.data = JsonStringify(value) =>
                    emitted' = <<HandlePeerMessage(received'.from, value)>>]_vars

C35_Witness ==
    /\ received.from \in received.dropped
    /\ JsonParse(received.data).ok
    /\ emitted = <<HandlePeerMessage(received.from, JsonObject(<<JsonNumber>>))>>

\* the timer t fires in this step
Fires(t) == CopiesIn(t, timers') < CopiesIn(t, timers)

\* the session that scheduled the timer t is still the session of its peer
SameSession(t) == t.peer \in DOMAIN peers /\ peers[t.peer].gen = t.gen

\* C31: when a reconnect timer fires it tears down and recreates the session
\* only if the peer is still a room member and the session that scheduled the
\* timer is still the peer's session; a timer of a session that has been closed
\* or replaced changes no session and no connection.
C31_StaleTimerGuard ==
    [][\A t \in BagToSet(timers) :
        (Fires(t) /\ ~(SameSession(t) /\ t.peer \in roomUsers)) => UNCHANGED <<peers, pcs>>]_vars

\* the timers handlePeerDisconnect calls of the session <<p, gen>> have pending
TimersOf(p, gen) == {t \in BagToSet(timers) : t.peer = p /\ t.gen = gen}

\* C38: for one session at most one reconnect timer is pending at a time: a
\* second disconnected or failed event before the timer has fired schedules no
\* second one.
C38_OneTimerPerSession ==
    \A t \in BagToSet(timers) :
        /\ CopiesIn(t, timers) = 1
        /\ TimersOf(t.peer, t.gen) = {t}

\* the session of p is in the middle of a negotiation: an offer was sent and is
\* not answered (have-local-offer) or a remote offer is being answered
\* (have-remote-offer)
MidNegotiation(p) ==
    /\ p \in DOMAIN peers
    /\ peers[p].pc
    /\ pcs[PcKey(peers, p)].sig # "stable"

\* a reconnect timer for p is scheduled in this step
RetryScheduled(p) ==
    \E t \in BagToSet(timers') : t.peer = p /\ CopiesIn(t, timers') > CopiesIn(t, timers)

\* the retryCount of p's session changes in this step
RetryCountChanged(p) ==
    /\ p \in DOMAIN peers
    /\ p \in DOMAIN peers'
    /\ peers'[p].gen = peers[p].gen
    /\ peers'[p].retryCount # peers[p].retryCount

\* C34: a disconnected or failed event on a session that is in the middle of a
\* negotiation or renegotiation schedules no retry and leaves retryCount as it
\* is: no step on such a session schedules a reconnect timer or changes its
\* retryCount.
C34_NoRetryMidNegotiation ==
    [][\A p \in SignalPeerIds :
        MidNegotiation(p) => ~RetryScheduled(p) /\ ~RetryCountChanged(p)]_vars

\* the member-left event of p has been handled and p has not joined again
Departed(p) ==
    /\ \A r \in Rooms : p \notin users[r]
    /\ \A l \in DOMAIN usersListeners : p \notin usersListeners[l].seen

\* the member-left event of p is handled in this step
MemberLeft(p) ==
    \E l \in DOMAIN usersListeners :
        /\ p \in usersListeners[l].seen
        /\ l \in DOMAIN usersListeners'
        /\ p \notin usersListeners'[l].seen

\* nothing of a session of p is left: no entry, no open connection, no timer,
\* no queued signal, no handleSignal invocation in progress
NothingOf(p) ==
    /\ p \notin DOMAIN peers
    /\ \A k \in DOMAIN pcs : k[1] # p
    /\ \A t \in BagToSet(timers) : t.peer # p
    /\ \A k \in DOMAIN queues : k[1] # p
    /\ \A h \in running : h.signal.from # p

\* C33: handling the member-left event of P emits USER_LEFT for P, and from
\* then until P joins again there is no session of P, no connection of P is
\* open, and no reconnect timer and no queued signal of P is left that could
\* recreate one.
C33_MemberLeftDestroysSession ==
    /\ [](\A p \in DepartPeerIds : Departed(p) => NothingOf(p))
    /\ [][\A p \in DepartPeerIds : MemberLeft(p) => emitted' = <<EvUserLeft(p)>>]_vars

\* the signal numbered n is worked on in this step: handleSignal starts for it,
\* or resumes, or ends
Handles(n) == n \in DOMAIN handled /\ handled'[n] # handled[n]

\* C32: the timers and the signals that were pending when leaveRoom closed
\* the sessions have no effect afterwards: when such a timer fires, or such a
\* signal is handled, no session and no connection is created, changed or
\* closed, also in a later membership.
C32_LeaveCancelsPendingWork ==
    [][(\/ \E t \in pendingAtLeave.timers : Fires(t)
        \/ \E n \in pendingAtLeave.signals : Handles(n)) => UNCHANGED <<peers, pcs>>]_vars

\* no JOIN_ROOM / LEAVE_ROOM exchange is outstanding
Settled == swCall = NoCall /\ tasks = EmptyMap

\* C40: once every JOIN_ROOM / LEAVE_ROOM exchange has completed, the service
\* worker's currentRoomId is the engine's currentRoomId; after a join that
\* ended in ROOM_FULL or ERROR the service worker has not recorded the room.
C40_HostEngineAgreement == Settled => swRoomId = currentRoomId

\* the connection of the pair has failed on one side: a reconnect timer is pending
ReconnectPending == farEngine.timers > 0 \/ \E t \in BagToSet(timers) : t.peer = FarId

\* both participants have an open channel to each other
BothOpen == Matched /\ peers[FarId].dc = "open" /\ farEngine.dc = "open"

\* C39: when the connection of two participants that stay in the room has
\* failed and the relay and the transport work, both have an open channel to
\* each other again at some later time (unless the remote engine has sent all
\* the offers of the model).
C39_ReconnectLiveness == ReconnectPending ~> (BothOpen \/ pushed = MaxOffers)

====
